------------------------ MODULE RecoveryStore_proofs ------------------------
(***************************************************************************)
(* Proofs about the recovery store, for any recoveries, plans, threads and *)
(* restarts.  What is proved of the hold registry in ResourceHolds_proofs  *)
(* is used through Registry, the registry the store calls.                 *)
(***************************************************************************)
EXTENDS RecoveryStore, TLAPS

Registry == INSTANCE ResourceHolds_proofs
  WITH Tenants <- {Tenant}, Owners <- {Operator}, MinTtl <- Ttl, MaxTtl <- Ttl

\* A hold covers what the candidate it was issued for needs.
HoldsAreAsked ==
  \A h \in HoldIds : hold[h] # None => hold[h].resources = Needs[hold[h].candidate]

\* Whoever holds something exists and is not superseded.
HoldersAreActive ==
  \A h \in live : Exists(hold[h].recovery) /\ recovery[hold[h].recovery].status # "superseded"

\* Recoveries and deployments point at each other.
DeploymentsAreOwned ==
  /\ \A d \in Deployments : deployment[d] # None =>
       /\ Exists(deployment[d].recovery)
       /\ recovery[deployment[d].recovery].deployment # None
  /\ \A r \in Recoveries : (Exists(r) /\ recovery[r].deployment # None) =>
       /\ deployment[recovery[r].deployment] # None
       /\ deployment[recovery[r].deployment].recovery = r

\* A running compensation has a deployment to work on.
PendingAreDeployed ==
  \A x \in Clients, d \in Deployments : Compensating(x, d) => deployment[d] # None

IInv ==
  /\ TypeOK
  /\ Holds!IndexExact
  /\ HoldsAreAsked
  /\ HoldersAreActive
  /\ DeploymentsAreOwned
  /\ PendingAreDeployed
  /\ CompensationIsShown

----------------------------------------------------------------------------
(* The registry, as the store uses it.                                      *)

\* The store's parameters satisfy what the registry's proofs assume.
LEMMA RegistryAssumptions == Registry!TtlAssumption /\ Registry!NoneAssumption
  BY StoreAssumption
  DEF Registry!TtlAssumption, Registry!NoneAssumption, Registry!Hold, Holds!Hold

\* The registry of the proofs is the one the store calls.
LEMMA SameRegistry ==
  /\ Holds!TypeOK <=> Registry!TypeOK
  /\ Holds!TypeOK' <=> Registry!TypeOK'
  /\ Holds!IndexExact <=> Registry!IndexExact
  /\ Holds!IndexExact' <=> Registry!IndexExact'
  BY DEF Holds!TypeOK, Registry!TypeOK, Holds!IndexExact, Registry!IndexExact, Holds!Hold,
         Registry!Hold, Holds!Slots, Registry!Slots, Holds!SlotsOf, Registry!SlotsOf

\* Dropping registered holds and touching nothing else, as superseding does.
DropSome ==
  \E gone \in SUBSET live :
    Holds!Drop(gone) /\ conflict' = Holds!NoConflict /\ UNCHANGED <<now, hold>>

\* A restart, which drops them all.
ForgetAll ==
  /\ live' = {} /\ index' = [s \in Holds!Slots |-> None]
  /\ conflict' = Holds!NoConflict /\ UNCHANGED <<now, hold>>

\* Whatever way the store touches the registry, tables and index stay in step.
LEMMA RegistryKept ==
  ASSUME Holds!TypeOK, Holds!IndexExact,
         [Holds!Next]_registry \/ DropSome \/ ForgetAll
  PROVE  Holds!TypeOK' /\ Holds!IndexExact'
<1>1. Registry!TypeOK /\ Registry!IndexExact
  BY SameRegistry
<1>2. CASE [Holds!Next]_registry
  <2>1. [Registry!Next]_(Registry!vars)
    BY <1>2 DEF registry, Registry!vars, Holds!Next, Registry!Next, Holds!Tick, Registry!Tick,
      Holds!Acquire, Registry!Acquire, Holds!AcquireRefused, Registry!AcquireRefused,
      Holds!Look, Registry!Look, Holds!Release, Registry!Release,
      Holds!ReleaseForRecovery, Registry!ReleaseForRecovery,
      Holds!ReleaseAllForRecovery, Registry!ReleaseAllForRecovery, Holds!Drop, Registry!Drop,
      Holds!Taken, Registry!Taken, Holds!IndexWithout, Registry!IndexWithout, Holds!Expired,
      Registry!Expired, Holds!SlotsOf, Registry!SlotsOf, Holds!Slots, Registry!Slots,
      Holds!Found, Registry!Found, Holds!NoConflict, Registry!NoConflict
  <2>2. Registry!TypeOK'
    BY <1>1, <2>1, Registry!TypeInvariance, RegistryAssumptions
  <2>3. Registry!IndexExact'
    BY <1>1, <2>1, Registry!IndexInvariance, RegistryAssumptions
  <2>4. QED
    BY <2>2, <2>3, SameRegistry
<1>3. CASE DropSome
  <2>1. PICK gone \in SUBSET live :
          Holds!Drop(gone) /\ conflict' = Holds!NoConflict /\ UNCHANGED <<now, hold>>
    BY <1>3 DEF DropSome
  <2>2. Holds!TypeOK'
    BY <2>1, Zenon DEF Holds!TypeOK, Holds!Drop, Holds!IndexWithout, Holds!NoConflict
  <2>3. Registry!Drop(gone)
    BY <2>1 DEF Holds!Drop, Registry!Drop, Holds!IndexWithout, Registry!IndexWithout,
      Holds!Expired, Registry!Expired, Holds!SlotsOf, Registry!SlotsOf, Holds!Slots, Registry!Slots
  <2>4. Registry!IndexExact'
    BY <1>1, <2>1, <2>3, Registry!DropKeepsIndexExact, RegistryAssumptions
  <2>5. QED
    BY <2>2, <2>4, SameRegistry
<1>4. CASE ForgetAll
  <2>1. Holds!TypeOK'
    BY <1>4 DEF ForgetAll, Holds!TypeOK, Holds!NoConflict
  <2>2. Holds!IndexExact'
    BY <1>4, StoreAssumption DEF ForgetAll, Holds!IndexExact
  <2>3. QED
    BY <2>1, <2>2
<1>5. QED
  BY <1>2, <1>3, <1>4

\* Every step of the store leaves the registry alone, makes one call of it,
\* supersedes or restarts.
LEMMA CallsRegistry ==
  ASSUME TypeOK, [Next]_vars
  PROVE  [Holds!Next]_registry \/ DropSome \/ ForgetAll
<1> SUFFICES ASSUME ~UNCHANGED registry PROVE [Holds!Next]_registry \/ DropSome \/ ForgetAll
  OBVIOUS
<1>1. CASE Restart
  BY <1>1 DEF Restart, ForgetAll
<1>2. CASE Tick
  BY <1>2 DEF Tick, Holds!Next
<1>3. ASSUME NEW r \in Recoveries, NEW d \in Disruptions, NEW a \in Actors, Create(r, d, a)
      PROVE  DropSome
  <2> DEFINE gone == {h \in live \ Holds!Expired : hold[h].recovery \in Prior(d)}
  <2>1. Holds!Drop(gone) /\ conflict' = Holds!NoConflict /\ UNCHANGED <<now, hold>>
    BY <1>3 DEF Create, ReleasePrior
  <2>2. gone \in SUBSET live
    OBVIOUS
  <2>3. QED
    BY <2>1, <2>2 DEF DropSome
<1>4. ASSUME NEW r \in Recoveries, NEW c \in Candidates, NEW action, Select(r, c, action)
      PROVE  Holds!Next
  <2>1. PICK h \in HoldIds : Holds!Acquire(h, Tenant, r, c, Needs[c], Operator, Ttl)
    BY <1>4 DEF Select
  <2>2. Tenant \in {Tenant} /\ Operator \in {Operator} /\ Ttl \in Ttl..Ttl
        /\ Needs[c] \in SUBSET Resources
    BY StoreAssumption
  <2>3. QED
    BY <2>1, <2>2 DEF Holds!Next
<1>5. ASSUME NEW r \in Recoveries, NEW c \in Candidates, NEW action, SelectRefused(r, c, action)
      PROVE  Holds!Next
  <2>1. Tenant \in {Tenant} /\ Needs[c] \in SUBSET Resources
    BY StoreAssumption
  <2>2. QED
    BY <1>5, <2>1 DEF SelectRefused, Holds!Next
<1>6. ASSUME NEW r \in Recoveries, NEW c \in Candidates, Reject(r, c)
      PROVE  Holds!Next
  BY <1>6 DEF Reject, Holds!Next, TypeOK
<1>7. ASSUME NEW x \in Clients, NEW r \in Recoveries, Validate(x, r) \/ ValidateRefused(x, r)
      PROVE  Holds!Next
  BY <1>7 DEF Validate, ValidateRefused, Holds!Next
<1>8. QED
  BY <1>1, <1>2, <1>3, <1>4, <1>5, <1>6, <1>7
  DEF Next, Method, Thread, vars, registry, ApproveSuggestion, DecideSuggestion, Approve, Simulate,
      Rollback, AskValidation, Compensate, ReadVersion, UpdateRecovery

----------------------------------------------------------------------------
(* The store's own tables.                                                  *)

\* recovery.update({...}) makes a record of the same kind.
LEMMA AdvancedType ==
  ASSUME TypeOK, NEW r \in Recoveries, NEW st \in Status, Version(r)
  PROVE  /\ recovery[r] \in Recovery
         /\ Advanced(r, st) \in Recovery
         /\ Advanced(r, st) = [recovery[r] EXCEPT !.status = st, !.version = recovery[r].version + 1]
         /\ Advanced(r, st).deployment = recovery[r].deployment
         /\ Advanced(r, st).status = st
         /\ Advanced(r, st).version > recovery[r].version
<1>1. recovery[r] \in Recovery
  BY DEF TypeOK, Version, Exists
<1>2. recovery[r].version + 1 \in 1..MaxVersion
  BY <1>1, StoreAssumption DEF Recovery, Version
<1>3. /\ Advanced(r, st) \in Recovery
      /\ Advanced(r, st) = [recovery[r] EXCEPT !.status = st, !.version = recovery[r].version + 1]
  BY <1>1, <1>2 DEF Advanced, Recovery
<1>4. Advanced(r, st).deployment = recovery[r].deployment /\ Advanced(r, st).status = st
  BY <1>1, <1>3 DEF Recovery
<1>5. Advanced(r, st).version = recovery[r].version + 1 /\ recovery[r].version \in Nat
  BY <1>1, <1>3 DEF Recovery
<1>6. QED
  BY <1>1, <1>3, <1>4, <1>5

\* Every step keeps the store's own tables in shape.
LEMMA OwnTypes ==
  ASSUME TypeOK, DeploymentsAreOwned, PendingAreDeployed, [Next]_vars
  PROVE  /\ recovery' \in [Recoveries -> Recovery \cup {None}]
         /\ kept' \in [Candidates -> HoldIds \cup {None}]
         /\ certified' \subseteq Candidates
         /\ deployment' \in [Deployments -> Deployment \cup {None}]
         /\ request' \in [Clients -> Request \cup {None}]
<1> DEFINE Types == /\ recovery' \in [Recoveries -> Recovery \cup {None}]
                    /\ kept' \in [Candidates -> HoldIds \cup {None}]
                    /\ certified' \subseteq Candidates
                    /\ deployment' \in [Deployments -> Deployment \cup {None}]
                    /\ request' \in [Clients -> Request \cup {None}]
<1>0. SUFFICES Types
  OBVIOUS
<1>a. ASSUME NEW r \in Recoveries, NEW new \in Recovery, Store(r, new)
      PROVE  recovery' \in [Recoveries -> Recovery \cup {None}]
  BY <1>a DEF TypeOK, Store
<1>1. ASSUME NEW r \in Recoveries, NEW d \in Disruptions, NEW a \in Actors, Create(r, d, a)
      PROVE  Types
  <2>1. Created(r, d, a) \in Recovery
    BY StoreAssumption DEF Created, Recovery, Status
  <2>2. \A s \in Prior(d) : [recovery[s] EXCEPT !.status = "superseded"] \in Recovery
    BY DEF TypeOK, Prior, Exists, Recovery, Status
  <2>3. QED
    BY <1>1, <2>1, <2>2 DEF Create, TypeOK
<1>2. ASSUME NEW r \in Recoveries, DecideSuggestion(r)
      PROVE  Types
  <2>1. Version(r) /\ recovery[r].status \in Status
    BY <1>2 DEF DecideSuggestion, Version, Exists, TypeOK, Recovery
  <2>2. QED
    BY <1>2, <1>a, <2>1, AdvancedType DEF DecideSuggestion, TypeOK
<1>3. ASSUME NEW r \in Recoveries, NEW c \in Candidates, ApproveSuggestion(r, c)
      PROVE  Types
  <2>1. Version(r) /\ "awaiting_review" \in Status
    BY <1>3 DEF ApproveSuggestion, Status
  <2>a. Advanced(r, "awaiting_review") \in Recovery
    BY <2>1, AdvancedType
  <2>2. [Advanced(r, "awaiting_review") EXCEPT !.candidates = @ \cup {c}] \in Recovery
    BY <2>a DEF Recovery
  <2>3. QED
    BY <1>3, <1>a, <2>2 DEF ApproveSuggestion, TypeOK
<1>4. ASSUME NEW r \in Recoveries, NEW c \in Candidates, NEW action, Select(r, c, action)
      PROVE  Types
  <2> DEFINE st == IF action = "hold" THEN "held" ELSE "validating"
  <2>1. Version(r) /\ st \in Status
    BY <1>4 DEF Select, Selectable, Status
  <2>a. Advanced(r, st) \in Recovery
    BY <2>1, AdvancedType
  <2>2. [Advanced(r, st) EXCEPT !.selected = c] \in Recovery
    BY <2>a DEF Recovery
  <2>3. QED
    BY <1>4, <1>a, <2>2 DEF Select, TypeOK
<1>5. ASSUME NEW r \in Recoveries, NEW c \in Candidates, Reject(r, c)
      PROVE  Types
  <2>1. Version(r) /\ "awaiting_review" \in Status
    BY <1>5 DEF Reject, Status
  <2>a. Advanced(r, "awaiting_review") \in Recovery
    BY <2>1, AdvancedType
  <2>2. [Advanced(r, "awaiting_review") EXCEPT !.selected = None] \in Recovery
    BY <2>a DEF Recovery
  <2>3. QED
    BY <1>5, <1>a, <2>2 DEF Reject, TypeOK
<1>6. ASSUME NEW r \in Recoveries, NEW a \in Actors, Approve(r, a)
      PROVE  Types
  <2> DEFINE ap == [actor |-> a, candidate |-> recovery[r].selected]
             adv == Advanced(r, "approved")
  <2>1. Version(r) /\ "approved" \in Status
    BY <1>6 DEF Approve, Status
  <2>2. recovery[r] \in Recovery /\ adv \in Recovery
    BY <2>1, AdvancedType
  <2>3. ap \in Approval
    BY <2>2 DEF Approval, Recovery
  <2>4. [adv EXCEPT !.approvals = @ \cup {ap}] \in Recovery
    BY <2>2, <2>3 DEF Recovery
  <2>5. QED
    BY <1>6, <1>a, <2>4 DEF Approve, TypeOK
<1>7. ASSUME NEW r \in Recoveries, NEW d \in Deployments, Simulate(r, d)
      PROVE  Types
  <2>1. Version(r) /\ "deployed" \in Status
    BY <1>7 DEF Simulate, Status
  <2>a. Advanced(r, "deployed") \in Recovery
    BY <2>1, AdvancedType
  <2>2. [Advanced(r, "deployed") EXCEPT !.deployment = d] \in Recovery
    BY <2>a DEF Recovery
  <2>3. [recovery |-> r, candidate |-> recovery[r].selected, status |-> "complete",
         record |-> "registered"] \in Deployment
    BY <1>7, <2>1, AdvancedType DEF Simulate, Deployment, Recovery, Record
  <2>4. QED
    BY <1>7, <1>a, <2>2, <2>3 DEF Simulate, TypeOK
<1>b. ASSUME NEW d \in Deployments, CompensateInRegistry(d)
      PROVE  deployment' \in [Deployments -> Deployment \cup {None}]
  BY <1>b DEF CompensateInRegistry, TypeOK, Deployment
<1>c. ASSUME NEW r \in Recoveries, Exists(r), NEW v \in 1..(MaxVersion - 1)
      PROVE  Compensated(r, v) \in Recovery
  <2>1. recovery[r] \in Recovery
    BY <1>c DEF Exists, TypeOK
  <2>2. v + 1 \in 1..MaxVersion /\ "requires_new_recovery" \in Status
    BY StoreAssumption DEF Status
  <2>3. QED
    BY <2>1, <2>2 DEF Compensated, Recovery
<1>8. ASSUME NEW r \in Recoveries, Rollback(r)
      PROVE  Types
  <2>1. Exists(r) /\ recovery[r] \in Recovery /\ recovery[r].version < MaxVersion
    BY <1>8 DEF Rollback, Version, Exists, TypeOK
  <2>2. recovery[r].deployment \in Deployments /\ recovery[r].version \in 1..(MaxVersion - 1)
    BY <1>8, <2>1, StoreAssumption DEF Rollback, Recovery
  <2>3. QED
    BY <1>8, <1>a, <1>b, <1>c, <2>1, <2>2 DEF Rollback, TypeOK
<1>9. ASSUME NEW x \in Clients, NEW r \in Recoveries, NEW c \in Candidates, NEW v \in 1..MaxVersion,
             AskValidation(x, r, c, v)
      PROVE  Types
  BY <1>9 DEF AskValidation, Begin, TypeOK, Request
<1>10. ASSUME NEW x \in Clients, NEW r \in Recoveries, Validate(x, r)
       PROVE  Types
  <2> DEFINE st == "awaiting_joint_feasibility"
  <2>1. Version(r) /\ st \in Status
    BY <1>10 DEF Validate, Status
  <2>2. recovery[r] \in Recovery /\ Advanced(r, st) \in Recovery
    BY <2>1, AdvancedType
  <2>3. [Advanced(r, st) EXCEPT !.validated = TRUE] \in Recovery
    BY <2>2 DEF Recovery
  <2>4. recovery[r].selected \in Candidates
    BY <1>10, <2>2 DEF Validate, ReachesRegistry, Recovery
  <2>5. QED
    BY <1>10, <1>a, <2>3, <2>4 DEF Validate, Finish, TypeOK
<1>11. ASSUME NEW x \in Clients, NEW r \in Recoveries, ValidateRefused(x, r)
       PROVE  Types
  BY <1>11 DEF ValidateRefused, Finish, TypeOK
<1>12. ASSUME NEW x \in Clients, NEW d \in Deployments, Compensate(x, d)
       PROVE  Types
  <2>1. [deployment |-> d, version |-> 0] \in Request
    BY StoreAssumption DEF Request
  <2>2. QED
    BY <1>12, <1>b, <2>1 DEF Compensate, Begin, TypeOK
<1>13. ASSUME NEW x \in Clients, NEW d \in Deployments, ReadVersion(x, d)
       PROVE  Types
  <2> DEFINE r == deployment[d].recovery
  <2>1. r \in Recoveries /\ Version(r)
    BY <1>13 DEF ReadVersion, PendingAreDeployed, TypeOK, Deployment
  <2>2. recovery[r].version \in 0..(MaxVersion - 1)
    BY <2>1, StoreAssumption DEF Version, Exists, TypeOK, Recovery
  <2>3. request[x] \in [deployment: Deployments, version: 0..(MaxVersion - 1)]
    BY <1>13 DEF ReadVersion, Compensating, TypeOK, Request
  <2>4. [request[x] EXCEPT !.version = recovery[r].version] \in Request
    BY <2>2, <2>3 DEF Request
  <2>5. QED
    BY <1>13, <2>4 DEF ReadVersion, TypeOK
<1>14. ASSUME NEW x \in Clients, NEW d \in Deployments, UpdateRecovery(x, d)
       PROVE  Types
  <2> DEFINE r == deployment[d].recovery
  <2>1. r \in Recoveries /\ Exists(r)
    BY <1>14 DEF UpdateRecovery, PendingAreDeployed, DeploymentsAreOwned, TypeOK, Deployment
  <2>2. request[x] \in [deployment: Deployments, version: 0..(MaxVersion - 1)]
    BY <1>14 DEF UpdateRecovery, Compensating, TypeOK, Request
  <2>3. request[x].version \in 1..(MaxVersion - 1)
    BY <1>14, <2>2, StoreAssumption DEF UpdateRecovery
  <2>4. QED
    BY <1>14, <1>a, <1>c, <2>1, <2>3 DEF UpdateRecovery, WriteBack, Finish, TypeOK
<1>15. CASE Restart
  <2>1. ASSUME NEW d \in Deployments, deployment[d] # None
        PROVE  Forgotten(d) \in Deployment
    BY <2>1 DEF Forgotten, TypeOK, Deployment, Record
  <2>2. QED
    BY <1>15, <2>1 DEF Restart, TypeOK
<1>16. CASE Tick \/ UNCHANGED vars
  BY <1>16 DEF Tick, vars, TypeOK
<1>17. ASSUME NEW r \in Recoveries, NEW c \in Candidates, NEW action, SelectRefused(r, c, action)
       PROVE  Types
  BY <1>17 DEF SelectRefused, TypeOK
<1>18. QED
  BY <1>1, <1>2, <1>3, <1>4, <1>5, <1>6, <1>7, <1>8, <1>9, <1>10, <1>11, <1>12, <1>13, <1>14,
     <1>15, <1>16, <1>17 DEF Next, Method, Thread

\* Only a selection issues a hold, and it asks for what the plan needs.
LEMMA HoldsStayAsked ==
  ASSUME TypeOK, HoldsAreAsked, [Next]_vars
  PROVE  HoldsAreAsked'
<1>1. ASSUME NEW r \in Recoveries, NEW c \in Candidates, NEW action, Select(r, c, action)
      PROVE  HoldsAreAsked'
  <2>1. PICK h \in HoldIds : Holds!Acquire(h, Tenant, r, c, Needs[c], Operator, Ttl)
    BY <1>1 DEF Select
  <2>2. /\ hold'[h].candidate = c /\ hold'[h].resources = Needs[c]
        /\ \A g \in HoldIds \ {h} : hold'[g] = hold[g]
    BY <2>1 DEF Holds!Acquire, TypeOK, Holds!TypeOK
  <2>3. QED
    BY <2>2 DEF HoldsAreAsked
<1>2. (~\E r \in Recoveries, c \in Candidates, action \in {"approve", "override", "hold"} :
          Select(r, c, action)) => hold' = hold
  BY ZenonT(30) DEF Next, Method, Thread, vars, registry, Create, ReleasePrior, ApproveSuggestion,
    DecideSuggestion, SelectRefused, Reject, Approve, Simulate, Rollback, AskValidation, Validate,
    ValidateRefused, Compensate, ReadVersion, UpdateRecovery, Restart, Tick, Holds!Tick,
    Holds!AcquireRefused, Holds!ReleaseForRecovery, Holds!Look
<1>3. hold' = hold => HoldsAreAsked'
  BY DEF HoldsAreAsked
<1>4. QED
  BY <1>1, <1>2, <1>3

\* A hold that was there before, or a new one of the recovery that selects.
\* A recovery that moves on is not superseded by that.
LEMMA HoldersStayActive ==
  ASSUME TypeOK, HoldersAreActive, NEW r \in Recoveries, NEW new \in Recovery, Store(r, new),
         \A h \in live' : \/ h \in live /\ hold'[h] = hold[h]
                          \/ hold'[h].recovery = r,
         Exists(r) => new.status \in {recovery[r].status} \cup (Status \ {"superseded"}),
         ~(\A h \in live' : h \in live /\ hold'[h] = hold[h]) => new.status # "superseded"
  PROVE  HoldersAreActive'
<1> SUFFICES ASSUME NEW h \in live'
             PROVE  recovery'[hold'[h].recovery] # None
                    /\ recovery'[hold'[h].recovery].status # "superseded"
  BY DEF HoldersAreActive, Exists
<1>1. recovery'[r] = new /\ new # None /\ \A s \in Recoveries \ {r} : recovery'[s] = recovery[s]
  BY StoreAssumption DEF Store, TypeOK
<1>2. CASE h \in live /\ hold'[h] = hold[h]
  <2>1. hold[h].recovery \in Recoveries
    BY <1>2 DEF TypeOK, Holds!TypeOK, Holds!Hold
  <2>2. Exists(hold[h].recovery) /\ recovery[hold[h].recovery].status # "superseded"
    BY <1>2 DEF HoldersAreActive
  <2>3. QED
    BY <1>1, <1>2, <2>1, <2>2 DEF Exists
<1>3. CASE ~(h \in live /\ hold'[h] = hold[h])
  BY <1>1, <1>3
<1>4. QED
  BY <1>2, <1>3

\* Methods that change one recovery and neither registry nor deployment.
LEMMA DeploymentsStayOwned ==
  ASSUME TypeOK, DeploymentsAreOwned, NEW r \in Recoveries, NEW new \in Recovery, Store(r, new),
         Exists(r), new.deployment = recovery[r].deployment,
         \A d \in Deployments : /\ deployment'[d] # None <=> deployment[d] # None
                                /\ deployment[d] # None => deployment'[d].recovery = deployment[d].recovery
  PROVE  DeploymentsAreOwned'
<1>1. recovery'[r] = new /\ new # None /\ \A s \in Recoveries \ {r} : recovery'[s] = recovery[s]
  BY StoreAssumption DEF Store, TypeOK
<1>2. \A s \in Recoveries : recovery'[s] # None <=> recovery[s] # None
  BY <1>1 DEF Exists
<1>3. \A d \in Deployments : deployment[d] # None => deployment[d].recovery \in Recoveries
  BY DEF TypeOK, Deployment
<1>4. ASSUME NEW s \in Recoveries, recovery'[s] # None, recovery'[s].deployment # None
      PROVE  /\ recovery[s] # None /\ recovery[s].deployment = recovery'[s].deployment
             /\ recovery[s].deployment \in Deployments
  <2>1. recovery[s] # None /\ recovery[s].deployment = recovery'[s].deployment
    BY <1>1, <1>2, <1>4
  <2>2. recovery[s] \in Recovery
    BY <2>1 DEF TypeOK
  <2>3. QED
    BY <1>4, <2>1, <2>2 DEF Recovery
<1>5. \A d \in Deployments : deployment'[d] # None =>
        recovery'[deployment'[d].recovery] # None /\ recovery'[deployment'[d].recovery].deployment # None
  BY <1>1, <1>2, <1>3 DEF DeploymentsAreOwned, Exists
<1>6. QED
  BY <1>4, <1>5 DEF DeploymentsAreOwned, Exists

\* A compensation that changes its recovery may end with that.
LEMMA ShownStays ==
  ASSUME TypeOK, DeploymentsAreOwned, CompensationIsShown,
         NEW r \in Recoveries, NEW new \in Recovery, Store(r, new), Exists(r),
         new.deployment = recovery[r].deployment,
         new.status # "deployed" \/ new.status = recovery[r].status,
         \A d \in Deployments : \/ deployment'[d] = deployment[d]
                                \/ deployment[d].recovery = r /\ new.status # "deployed",
         \A x \in Clients, d \in Deployments : Compensating(x, d) =>
            Compensating(x, d)' \/ (deployment[d].recovery = r /\ new.status # "deployed")
  PROVE  CompensationIsShown'
<1> SUFFICES ASSUME NEW s \in Recoveries, NEW d \in Deployments,
                    recovery'[s] # None, recovery'[s].status = "deployed",
                    recovery'[s].deployment = d, deployment'[d].status = "requires_new_recovery",
                    deployment'[d].record # "interrupted"
             PROVE  \E x \in Clients : Compensating(x, d)'
  BY DEF CompensationIsShown, Exists
<1>1. recovery'[r] = new /\ \A t \in Recoveries \ {r} : recovery'[t] = recovery[t]
  BY DEF Store, TypeOK
<1>2. recovery[s] # None /\ recovery[s].status = "deployed" /\ recovery[s].deployment = d
  BY <1>1 DEF Exists
<1>3. deployment[d].recovery = s
  BY <1>2, StoreAssumption DEF DeploymentsAreOwned, Exists
<1>4. deployment'[d] = deployment[d]
  BY <1>1, <1>3
<1>5. PICK x \in Clients : Compensating(x, d)
  BY <1>2, <1>4 DEF CompensationIsShown, Exists
<1>6. QED
  BY <1>1, <1>3, <1>5

\* Reading the version leaves the same compensation running.
LEMMA ReadVersionStep ==
  ASSUME TypeOK, PendingAreDeployed, NEW x \in Clients, NEW d \in Deployments, ReadVersion(x, d)
  PROVE  /\ Compensating(x, d)'
         /\ \A y \in Clients \ {x} : request'[y] = request[y]
<1> DEFINE r == deployment[d].recovery
<1>1. r \in Recoveries /\ Version(r)
  BY DEF ReadVersion, PendingAreDeployed, TypeOK, Deployment
<1>2. recovery[r].version \in 0..(MaxVersion - 1)
  BY <1>1, StoreAssumption DEF Version, Exists, TypeOK, Recovery
<1>3. request[x] \in [deployment: Deployments, version: 0..(MaxVersion - 1)] /\ request[x].deployment = d
  BY DEF ReadVersion, Compensating, TypeOK, Request
<1>4. request'[x] = [request[x] EXCEPT !.version = recovery[r].version]
  BY DEF ReadVersion, TypeOK
<1>5. request'[x] \in [deployment: Deployments, version: 0..(MaxVersion - 1)] /\ request'[x].deployment = d
  BY <1>2, <1>3, <1>4
<1>6. request'[x] # None
  BY <1>5, StoreAssumption DEF Request
<1>7. \A y \in Clients \ {x} : request'[y] = request[y]
  BY DEF ReadVersion, TypeOK
<1>8. QED
  BY <1>5, <1>6, <1>7 DEF Compensating

\* A running compensation ends only with UpdateRecovery or a restart.
LEMMA CompensationsStay ==
  ASSUME TypeOK, PendingAreDeployed, [Next]_vars, ~Restart,
         NEW x \in Clients, NEW d \in Deployments, Compensating(x, d), ~UpdateRecovery(x, d)
  PROVE  Compensating(x, d)'
<1>1. /\ request[x] \in [deployment: Deployments, version: 0..(MaxVersion - 1)]
      /\ request[x].deployment = d /\ request[x] # None
  BY DEF Compensating, TypeOK, Request
<1>2. \A r \in Recoveries : ~Validating(x, r)
  BY <1>1 DEF Validating
<1>3. \A e \in Deployments : Compensating(x, e) => e = d
  BY <1>1 DEF Compensating
<1>4. request'[x] = request[x] => Compensating(x, d)'
  BY <1>1 DEF Compensating
<1>5. ASSUME NEW y \in Clients, Thread(y)
      PROVE  Compensating(x, d)'
  <2>1. ASSUME NEW r \in Recoveries, NEW c \in Candidates, NEW v \in 1..MaxVersion,
               AskValidation(y, r, c, v)
        PROVE  Compensating(x, d)'
    BY <1>1, <1>4, <2>1 DEF AskValidation, Begin, TypeOK
  <2>2. ASSUME NEW r \in Recoveries, Validate(y, r) \/ ValidateRefused(y, r)
        PROVE  Compensating(x, d)'
    BY <1>2, <1>4, <2>2
    DEF Validate, ValidateRefused, ReachesRegistry, SameVersion, Finish, TypeOK
  <2>3. ASSUME NEW e \in Deployments, Compensate(y, e)
        PROVE  Compensating(x, d)'
    BY <1>1, <1>4, <2>3 DEF Compensate, Begin, TypeOK
  <2>4. ASSUME NEW e \in Deployments, ReadVersion(y, e)
        PROVE  Compensating(x, d)'
    <3>1. x = y => e = d
      BY <1>3, <2>4 DEF ReadVersion
    <3>2. QED
      BY <1>4, <2>4, <3>1, ReadVersionStep
  <2>5. ASSUME NEW e \in Deployments, UpdateRecovery(y, e)
        PROVE  Compensating(x, d)'
    <3>1. x # y
      BY <1>3, <2>5 DEF UpdateRecovery
    <3>2. QED
      BY <1>4, <2>5, <3>1 DEF UpdateRecovery, Finish, TypeOK
  <2>6. QED
    BY <1>5, <2>1, <2>2, <2>3, <2>4, <2>5 DEF Thread
<1>6. ASSUME NEW r \in Recoveries, Method(r)
      PROVE  Compensating(x, d)'
  BY <1>4, <1>6 DEF Method, Create, ApproveSuggestion, DecideSuggestion, Select, SelectRefused,
    Reject, Approve, Simulate, Rollback
<1>7. CASE Tick \/ UNCHANGED vars
  BY <1>4, <1>7 DEF Tick, vars
<1>8. QED
  BY <1>5, <1>6, <1>7 DEF Next

\* A deployment, once made, stays with its recovery.
LEMMA DeploymentsStay ==
  ASSUME TypeOK, [Next]_vars, NEW d \in Deployments, deployment[d] # None
  PROVE  deployment'[d] # None /\ deployment'[d].recovery = deployment[d].recovery
<1>1. deployment[d] \in Deployment
  BY DEF TypeOK
<1>2. ASSUME NEW e \in Deployments, CompensateInRegistry(e)
      PROVE  deployment'[d] \in Deployment /\ deployment'[d].recovery = deployment[d].recovery
  <2>1. CASE d = e
    <3>1. deployment'[d] = [deployment[d] EXCEPT !.status = "requires_new_recovery"]
      BY <1>2, <2>1 DEF CompensateInRegistry, TypeOK
    <3>2. QED
      BY <1>1, <3>1 DEF Deployment
  <2>2. CASE d # e
    BY <1>1, <1>2, <2>2 DEF CompensateInRegistry, TypeOK
  <2>3. QED
    BY <2>1, <2>2
<1>3. ASSUME NEW r \in Recoveries, Rollback(r)
      PROVE  \E e \in Deployments : CompensateInRegistry(e)
  BY <1>3 DEF Rollback, Version, Exists, TypeOK, Recovery
<1>4. ASSUME NEW r \in Recoveries, NEW e \in Deployments, Simulate(r, e)
      PROVE  deployment'[d] = deployment[d]
  BY <1>4 DEF Simulate, TypeOK
<1>5. CASE Restart
  <2>1. deployment'[d] = Forgotten(d)
    BY <1>1, <1>5 DEF Restart
  <2>2. deployment'[d] \in Deployment /\ deployment'[d].recovery = deployment[d].recovery
    BY <1>1, <2>1 DEF Deployment, Record, Forgotten
  <2>3. QED
    BY <2>2, StoreAssumption
<1>6. \/ \E e \in Deployments : CompensateInRegistry(e)
      \/ Restart \/ deployment'[d] = deployment[d]
  BY <1>3, <1>4
  DEF Next, Method, Thread, vars, Create, ApproveSuggestion, DecideSuggestion, Select, SelectRefused,
    Reject, Approve, AskValidation, Validate, ValidateRefused, Compensate, ReadVersion,
    UpdateRecovery, Tick
<1>7. QED
  BY <1>2, <1>5, <1>6, StoreAssumption

\* A compensation starts from a deployment, and deployments are not removed.
LEMMA PendingStay ==
  ASSUME TypeOK, PendingAreDeployed, [Next]_vars
  PROVE  PendingAreDeployed'
<1> SUFFICES ASSUME NEW x \in Clients, NEW d \in Deployments, Compensating(x, d)'
             PROVE  deployment'[d] # None
  BY DEF PendingAreDeployed
<1>1. CASE Compensating(x, d)
  BY <1>1, DeploymentsStay DEF PendingAreDeployed
<1>2. request'[x] = request[x] => Compensating(x, d)
  BY DEF Compensating
<1>3. ASSUME NEW y \in Clients, Thread(y)
      PROVE  deployment'[d] # None
  <2>1. ASSUME NEW r \in Recoveries, NEW c \in Candidates, NEW v \in 1..MaxVersion,
               AskValidation(y, r, c, v)
        PROVE  Compensating(x, d)
    <3>1. request'[y] = [recovery |-> r, candidate |-> c, version |-> v]
      BY <2>1 DEF AskValidation, Begin, TypeOK
    <3>2. x # y
      BY <3>1 DEF Compensating
    <3>3. QED
      BY <1>2, <2>1, <3>2 DEF AskValidation, Begin, TypeOK
  <2>2. ASSUME NEW r \in Recoveries, Validate(y, r) \/ ValidateRefused(y, r)
        PROVE  Compensating(x, d)
    BY <1>2, <2>2 DEF Validate, ValidateRefused, Finish, TypeOK, Compensating
  <2>3. ASSUME NEW e \in Deployments, Compensate(y, e)
        PROVE  Compensating(x, d) \/ deployment'[d] # None
    <3>1. CASE x = y
      <4>1. d = e
        BY <2>3, <3>1 DEF Compensate, Begin, TypeOK, Compensating
      <4>2. QED
        BY <2>3, <4>1, DeploymentsStay DEF Compensate, CompensateInRegistry
    <3>2. CASE x # y
      BY <1>2, <2>3, <3>2 DEF Compensate, Begin, TypeOK
    <3>3. QED
      BY <3>1, <3>2
  <2>4. ASSUME NEW e \in Deployments, ReadVersion(y, e)
        PROVE  Compensating(x, d)
    <3>1. Compensating(y, e)' /\ Compensating(y, e)
      BY <2>4, ReadVersionStep DEF ReadVersion
    <3>2. x = y => d = e
      BY <3>1 DEF Compensating
    <3>3. QED
      BY <1>2, <2>4, <3>1, <3>2, ReadVersionStep
  <2>5. ASSUME NEW e \in Deployments, UpdateRecovery(y, e)
        PROVE  Compensating(x, d)
    BY <1>2, <2>5 DEF UpdateRecovery, Finish, TypeOK, Compensating
  <2>6. QED
    BY <1>1, <1>3, <2>1, <2>2, <2>3, <2>4, <2>5 DEF Thread
<1>4. ASSUME NEW r \in Recoveries, Method(r)
      PROVE  request'[x] = request[x]
  BY <1>4 DEF Method, Create, ApproveSuggestion, DecideSuggestion, Select, SelectRefused,
    Reject, Approve, Simulate, Rollback
<1>5. CASE Restart
  BY <1>5 DEF Restart, Compensating
<1>6. CASE Tick \/ UNCHANGED vars
  BY <1>1, <1>2, <1>6 DEF Tick, vars
<1>7. QED
  BY <1>1, <1>2, <1>3, <1>4, <1>5, <1>6 DEF Next

----------------------------------------------------------------------------
(* The steps that change one recovery and neither create nor deploy it.     *)

\* The recovery moves on to new; a hold it gets, or a compensation that ends
\* with it, is its own.
Moves(r, new) ==
  /\ Store(r, new) /\ Exists(r)
  /\ new.deployment = recovery[r].deployment
  /\ new.deployment = None => new.version > recovery[r].version
  /\ new.status \in {recovery[r].status} \cup (Status \ {"superseded", "deployed"})
  /\ \A h \in live' : \/ h \in live /\ hold'[h] = hold[h]
                      \/ hold'[h].recovery = r /\ new.status # "superseded"
  /\ \A d \in Deployments : \/ deployment'[d] = deployment[d]
                            \/ /\ deployment[d] # None /\ deployment[d].recovery = r
                               /\ new.status # "deployed"
  /\ \A x \in Clients, d \in Deployments : Compensating(x, d) =>
       Compensating(x, d)' \/ (deployment[d].recovery = r /\ new.status # "deployed")

\* A recovery that moves on keeps holders active, deployments owned and
\* compensations shown.
LEMMA MovesKeep ==
  ASSUME IInv, [Next]_vars, NEW r \in Recoveries, NEW new \in Recovery, Moves(r, new)
  PROVE  HoldersAreActive' /\ DeploymentsAreOwned' /\ CompensationIsShown'
<1>1. HoldersAreActive'
  BY HoldersStayActive DEF IInv, Moves
<1>2. \A d \in Deployments :
        /\ deployment'[d] # None <=> deployment[d] # None
        /\ deployment[d] # None => deployment'[d].recovery = deployment[d].recovery
  BY DeploymentsStay DEF IInv, Moves
<1>3. DeploymentsAreOwned'
  BY <1>2, DeploymentsStayOwned DEF IInv, Moves
<1>4. CompensationIsShown'
  BY ShownStays DEF IInv, Moves
<1>5. QED
  BY <1>1, <1>3, <1>4

\* What is left of the registry after a step that issues no hold was there.
LEMMA NothingNew ==
  ASSUME TypeOK,
         \/ UNCHANGED registry
         \/ Holds!Look \/ Holds!AcquireRefused(Tenant, Resources) \/ Holds!Tick
         \/ \E h \in HoldIds, r \in Recoveries : Holds!ReleaseForRecovery(h, r)
  PROVE  \A h \in live' : h \in live /\ hold'[h] = hold[h]
  BY DEF registry, Holds!Look, Holds!AcquireRefused, Holds!Tick, Holds!ReleaseForRecovery, Holds!Drop

\* Methods that keep deployments and requests.
LEMMA QuietMoves ==
  ASSUME TypeOK, NEW r \in Recoveries, NEW new \in Recovery, Store(r, new), Exists(r),
         new.deployment = recovery[r].deployment, new.version > recovery[r].version,
         new.status \in {recovery[r].status} \cup (Status \ {"superseded", "deployed"}),
         \A h \in live' : \/ h \in live /\ hold'[h] = hold[h]
                          \/ hold'[h].recovery = r /\ new.status # "superseded",
         UNCHANGED <<deployment, request>>
  PROVE  Moves(r, new)
  BY DEF Moves, Compensating

\* The steps that leave the recoveries alone.
Rests ==
  \/ \E r \in Recoveries, c \in Candidates, action \in {"approve", "override", "hold"} :
       SelectRefused(r, c, action)
  \/ \E x \in Clients, r \in Recoveries : ValidateRefused(x, r)
  \/ \E x \in Clients, r \in Recoveries, c \in Candidates, v \in 1..MaxVersion : AskValidation(x, r, c, v)
  \/ \E x \in Clients, d \in Deployments : Compensate(x, d) \/ ReadVersion(x, d)
  \/ Restart \/ Tick \/ UNCHANGED vars

\* Every step moves one recovery on, or is one of the others.
LEMMA StepsMove ==
  ASSUME IInv, [Next]_vars
  PROVE  \/ \E r \in Recoveries, new \in Recovery : Moves(r, new)
         \/ \E r \in Recoveries, d \in Disruptions, a \in Actors : Create(r, d, a)
         \/ \E r \in Recoveries, d \in Deployments : Simulate(r, d)
         \/ Rests /\ \A x \in Clients, d \in Deployments : ~UpdateRecovery(x, d)
<1> DEFINE Goal == \E r \in Recoveries, new \in Recovery : Moves(r, new)
<1> USE DEF IInv
<1>1. ASSUME NEW r \in Recoveries, DecideSuggestion(r)
      PROVE  Goal
  <2> DEFINE new == Advanced(r, recovery[r].status)
  <2>1. Version(r) /\ Exists(r) /\ recovery[r].status \in Status
    BY <1>1 DEF DecideSuggestion, Version, Exists, TypeOK, Recovery
  <2>2. /\ new \in Recovery /\ new.deployment = recovery[r].deployment
        /\ new.status = recovery[r].status /\ new.version > recovery[r].version
    BY <2>1, AdvancedType
  <2>3. Moves(r, new)
    BY <1>1, <2>1, <2>2, QuietMoves DEF DecideSuggestion, registry
  <2>4. QED
    BY <2>2, <2>3
<1>2. ASSUME NEW r \in Recoveries, NEW c \in Candidates, ApproveSuggestion(r, c)
      PROVE  Goal
  <2> DEFINE adv == Advanced(r, "awaiting_review")
             new == [adv EXCEPT !.candidates = @ \cup {c}]
  <2>1. Version(r) /\ Exists(r) /\ "awaiting_review" \in Status \ {"superseded", "deployed"}
    BY <1>2 DEF ApproveSuggestion, Version, Status
  <2>2. /\ adv \in Recovery /\ adv.deployment = recovery[r].deployment
        /\ adv.status = "awaiting_review" /\ adv.version > recovery[r].version
    BY <2>1, AdvancedType
  <2>3. /\ new \in Recovery /\ new.deployment = adv.deployment
        /\ new.status = adv.status /\ new.version = adv.version
    BY <2>2 DEF Recovery
  <2>4. Moves(r, new)
    BY <1>2, <2>1, <2>2, <2>3, QuietMoves DEF ApproveSuggestion, registry
  <2>5. QED
    BY <2>3, <2>4
<1>3. ASSUME NEW r \in Recoveries, NEW c \in Candidates, NEW action, Select(r, c, action)
      PROVE  Goal
  <2> DEFINE st == IF action = "hold" THEN "held" ELSE "validating"
             adv == Advanced(r, st)
             new == [adv EXCEPT !.selected = c]
  <2>1. Version(r) /\ Exists(r) /\ st \in Status \ {"superseded", "deployed"}
    BY <1>3 DEF Select, Selectable, Version, Status
  <2>2. /\ adv \in Recovery /\ adv.deployment = recovery[r].deployment
        /\ adv.status = st /\ adv.version > recovery[r].version
    BY <2>1, AdvancedType
  <2>3. /\ new \in Recovery /\ new.deployment = adv.deployment
        /\ new.status = adv.status /\ new.version = adv.version
    BY <2>2 DEF Recovery
  <2>4. PICK h \in HoldIds : Holds!Acquire(h, Tenant, r, c, Needs[c], Operator, Ttl)
    BY <1>3 DEF Select
  <2>5. /\ live' = (live \ Holds!Expired) \cup {h} /\ hold'[h].recovery = r
        /\ \A g \in HoldIds \ {h} : hold'[g] = hold[g]
        /\ live \subseteq HoldIds
    BY <2>4 DEF Holds!Acquire, TypeOK, Holds!TypeOK
  <2>6. \A g \in live' : \/ g \in live /\ hold'[g] = hold[g]
                         \/ hold'[g].recovery = r /\ new.status # "superseded"
    BY <2>1, <2>2, <2>3, <2>5
  <2>7. Store(r, new) /\ UNCHANGED <<deployment, request>>
    BY <1>3 DEF Select
  <2>8. Moves(r, new)
    BY ZenonT(30), <2>1, <2>2, <2>3, <2>6, <2>7, QuietMoves
  <2>9. QED
    BY <2>3, <2>8
<1>4. ASSUME NEW r \in Recoveries, NEW c \in Candidates, Reject(r, c)
      PROVE  Goal
  <2> DEFINE adv == Advanced(r, "awaiting_review")
             new == [adv EXCEPT !.selected = None]
  <2>1. Version(r) /\ Exists(r) /\ "awaiting_review" \in Status \ {"superseded", "deployed"}
    BY <1>4 DEF Reject, Version, Status
  <2>2. /\ adv \in Recovery /\ adv.deployment = recovery[r].deployment
        /\ adv.status = "awaiting_review" /\ adv.version > recovery[r].version
    BY <2>1, AdvancedType
  <2>3. /\ new \in Recovery /\ new.deployment = adv.deployment
        /\ new.status = adv.status /\ new.version = adv.version
    BY <2>2 DEF Recovery
  <2>4. kept[c] \in HoldIds \/ kept[c] = None
    BY DEF TypeOK
  <2>5. \A h \in live' : h \in live /\ hold'[h] = hold[h]
    BY <1>4, <2>4, NothingNew DEF Reject
  <2>6. Moves(r, new)
    BY <1>4, <2>1, <2>2, <2>3, <2>5, QuietMoves DEF Reject
  <2>7. QED
    BY <2>3, <2>6
<1>5. ASSUME NEW r \in Recoveries, NEW a \in Actors, Approve(r, a)
      PROVE  Goal
  <2> DEFINE ap == [actor |-> a, candidate |-> recovery[r].selected]
             adv == Advanced(r, "approved")
             new == [adv EXCEPT !.approvals = @ \cup {ap}]
  <2>1. Version(r) /\ Exists(r) /\ "approved" \in Status \ {"superseded", "deployed"}
    BY <1>5 DEF Approve, Version, Status
  <2>2. /\ adv \in Recovery /\ adv.deployment = recovery[r].deployment
        /\ adv.status = "approved" /\ adv.version > recovery[r].version
        /\ recovery[r] \in Recovery
    BY <2>1, AdvancedType
  <2>3. ap \in Approval
    BY <2>2 DEF Approval, Recovery
  <2>4. /\ new \in Recovery /\ new.deployment = adv.deployment
        /\ new.status = adv.status /\ new.version = adv.version
    BY <2>2, <2>3 DEF Recovery
  <2>5. Moves(r, new)
    BY <1>5, <2>1, <2>2, <2>4, QuietMoves DEF Approve, registry
  <2>6. QED
    BY <2>4, <2>5
<1>a. ASSUME NEW r \in Recoveries, Exists(r), NEW v \in 1..(MaxVersion - 1)
      PROVE  /\ Compensated(r, v) \in Recovery
             /\ Compensated(r, v).deployment = recovery[r].deployment
             /\ Compensated(r, v).status = "requires_new_recovery"
  <2>1. recovery[r] \in Recovery
    BY <1>a DEF Exists, TypeOK
  <2>2. v + 1 \in 1..MaxVersion /\ "requires_new_recovery" \in Status
    BY StoreAssumption DEF Status
  <2>3. QED
    BY <2>1, <2>2 DEF Compensated, Recovery
<1>6. ASSUME NEW r \in Recoveries, Rollback(r)
      PROVE  Goal
  <2> DEFINE new == Compensated(r, recovery[r].version)
  <2>1. Exists(r) /\ recovery[r] \in Recovery /\ recovery[r].version < MaxVersion
    BY <1>6 DEF Rollback, Version, Exists, TypeOK
  <2>2. recovery[r].version \in 1..(MaxVersion - 1)
    BY <2>1, StoreAssumption DEF Recovery
  <2>3. new \in Recovery /\ new.deployment = recovery[r].deployment /\ new.status = "requires_new_recovery"
    BY <1>a, <2>1, <2>2
  <2>4. deployment[recovery[r].deployment] # None /\ deployment[recovery[r].deployment].recovery = r
    BY <1>6, <2>1 DEF Rollback, DeploymentsAreOwned
  <2>5. \A d \in Deployments : deployment'[d] = deployment[d] \/ d = recovery[r].deployment
    BY <1>6 DEF Rollback, CompensateInRegistry, TypeOK
  <2>6. "requires_new_recovery" \in Status \ {"superseded", "deployed"}
    BY DEF Status
  <2>7. Moves(r, new)
    BY <1>6, <2>1, <2>3, <2>4, <2>5, <2>6 DEF Rollback, Moves, Compensating, registry
  <2>8. QED
    BY <2>3, <2>7
<1>7. ASSUME NEW x \in Clients, NEW r \in Recoveries, Validate(x, r)
      PROVE  Goal
  <2> DEFINE adv == Advanced(r, "awaiting_joint_feasibility")
             new == [adv EXCEPT !.validated = TRUE]
  <2>1. Version(r) /\ Exists(r) /\ "awaiting_joint_feasibility" \in Status \ {"superseded", "deployed"}
    BY <1>7 DEF Validate, Version, Status
  <2>2. /\ adv \in Recovery /\ adv.deployment = recovery[r].deployment
        /\ adv.status = "awaiting_joint_feasibility" /\ adv.version > recovery[r].version
    BY <2>1, AdvancedType
  <2>3. /\ new \in Recovery /\ new.deployment = adv.deployment
        /\ new.status = adv.status /\ new.version = adv.version
    BY <2>2 DEF Recovery
  <2>4. \A h \in live' : h \in live /\ hold'[h] = hold[h]
    BY <1>7, NothingNew DEF Validate
  <2>5. \A y \in Clients, d \in Deployments : Compensating(y, d) => Compensating(y, d)'
    <3>1. SUFFICES ASSUME NEW y \in Clients, NEW d \in Deployments, Compensating(y, d)
                   PROVE  y # x
      BY <1>7 DEF Validate, Finish, Compensating, TypeOK
    <3>2. "candidate" \notin DOMAIN request[y]
      BY <3>1 DEF Compensating, TypeOK, Request
    <3>3. QED
      BY <1>7, <3>2 DEF Validate, ReachesRegistry, SameVersion, Validating
  <2>6. Moves(r, new)
    BY <1>7, <2>1, <2>2, <2>3, <2>4, <2>5 DEF Validate, Moves
  <2>7. QED
    BY <2>3, <2>6
<1>8. ASSUME NEW x \in Clients, NEW e \in Deployments, UpdateRecovery(x, e)
      PROVE  Goal
  <2> DEFINE r == deployment[e].recovery
             new == Compensated(r, request[x].version)
  <2>1. r \in Recoveries /\ Exists(r) /\ recovery[r].deployment # None
    BY <1>8 DEF UpdateRecovery, PendingAreDeployed, DeploymentsAreOwned, TypeOK, Deployment
  <2>2. /\ request[x] \in [deployment: Deployments, version: 0..(MaxVersion - 1)]
        /\ request[x].deployment = e
    BY <1>8 DEF UpdateRecovery, Compensating, TypeOK, Request
  <2>3. request[x].version \in 1..(MaxVersion - 1)
    BY <1>8, <2>2, StoreAssumption DEF UpdateRecovery
  <2>4. new \in Recovery /\ new.deployment = recovery[r].deployment /\ new.status = "requires_new_recovery"
    BY <1>a, <2>1, <2>3
  <2>5. "requires_new_recovery" \in Status \ {"superseded", "deployed"}
    BY DEF Status
  <2>6. \A y \in Clients, d \in Deployments : Compensating(y, d) =>
          Compensating(y, d)' \/ deployment[d].recovery = r
    BY <1>8, <2>2 DEF UpdateRecovery, Finish, Compensating, TypeOK
  <2>7. Moves(r, new)
    BY <1>8, <2>1, <2>4, <2>5, <2>6 DEF UpdateRecovery, WriteBack, Moves, registry
  <2>8. QED
    BY <2>1, <2>4, <2>7
<1>9. QED
  BY <1>1, <1>2, <1>3, <1>4, <1>5, <1>6, <1>7, <1>8 DEF Next, Method, Thread, Rests

\* Superseding leaves nothing to those it supersedes; a new recovery has nothing yet.
LEMMA CreateKeeps ==
  ASSUME IInv, NEW r \in Recoveries, NEW d \in Disruptions, NEW a \in Actors, Create(r, d, a)
  PROVE  HoldersAreActive' /\ DeploymentsAreOwned' /\ CompensationIsShown'
<1> USE DEF IInv
<1>1. recovery[r] = None /\ r \notin Prior(d)
  BY DEF Create, Prior, Exists
<1>2. recovery'[r] = Created(r, d, a) /\ Created(r, d, a) # None
  <2>1. Created(r, d, a) \in Recovery
    BY StoreAssumption DEF Created, Recovery, Status
  <2>2. QED
    BY <2>1, StoreAssumption DEF Create
<1>3. ASSUME NEW s \in Prior(d)
      PROVE  /\ recovery'[s] # None /\ recovery'[s].deployment = recovery[s].deployment
             /\ recovery'[s].status = "superseded" /\ recovery[s] # None
  <2>1. recovery[s] \in Recovery /\ s \in Recoveries /\ s # r
    BY <1>1 DEF TypeOK, Prior, Exists
  <2>2. recovery'[s] = [recovery[s] EXCEPT !.status = "superseded"]
    BY <2>1 DEF Create
  <2>3. recovery'[s] \in Recovery /\ recovery'[s].deployment = recovery[s].deployment
        /\ recovery'[s].status = "superseded"
    BY <2>1, <2>2 DEF Recovery, Status
  <2>4. QED
    BY <2>1, <2>3, StoreAssumption
<1>4. \A s \in Recoveries : s # r /\ s \notin Prior(d) => recovery'[s] = recovery[s]
  BY DEF Create
<1>5. \A h \in live' : h \in live /\ hold'[h] = hold[h] /\ hold[h].recovery \notin Prior(d)
  <2>1. CASE Prior(d) = {}
    BY <2>1 DEF Create, ReleasePrior, registry
  <2>2. CASE Prior(d) # {}
    BY <2>2 DEF Create, ReleasePrior, Holds!Drop
  <2>3. QED
    BY <2>1, <2>2
<1>6. HoldersAreActive'
  <2>1. \A h \in live : hold[h].recovery \in Recoveries /\ hold[h].recovery # r
    BY <1>1 DEF HoldersAreActive, Exists, TypeOK, Holds!TypeOK, Holds!Hold
  <2>2. QED
    BY <1>4, <1>5, <2>1 DEF HoldersAreActive, Exists
<1>7. UNCHANGED <<deployment, request>>
  BY DEF Create
<1>8. DeploymentsAreOwned'
  <2>1. \A s \in Recoveries : recovery[s] # None => recovery'[s] # None
    BY <1>1, <1>3, <1>4
  <2>2. \A e \in Deployments : deployment[e] # None => deployment[e].recovery \in Recoveries
    BY DEF TypeOK, Deployment
  <2>3. Created(r, d, a).deployment = None
    BY DEF Created
  <2>4. \A s \in Recoveries : recovery'[s] # None /\ recovery'[s].deployment # None =>
          recovery[s] # None /\ recovery[s].deployment = recovery'[s].deployment
    BY <1>2, <1>3, <1>4, <2>3
  <2>5. \A s \in Recoveries : recovery[s] # None => recovery'[s].deployment = recovery[s].deployment
    BY <1>1, <1>3, <1>4
  <2>6. QED
    BY <1>7, <2>1, <2>2, <2>4, <2>5 DEF DeploymentsAreOwned, Exists
<1>9. CompensationIsShown'
  <2>1. \A s \in Recoveries : recovery'[s].status = "deployed" => recovery'[s] = recovery[s]
    BY <1>2, <1>3, <1>4 DEF Created
  <2>2. QED
    BY <1>7, <2>1 DEF CompensationIsShown, Compensating, Exists
<1>10. QED
  BY <1>6, <1>8, <1>9

\* A deployment is made for the recovery that points to it, and complete.
LEMMA SimulateKeeps ==
  ASSUME IInv, NEW r \in Recoveries, NEW d \in Deployments, Simulate(r, d)
  PROVE  HoldersAreActive' /\ DeploymentsAreOwned' /\ CompensationIsShown'
<1> USE DEF IInv
<1> DEFINE adv == Advanced(r, "deployed")
           new == [adv EXCEPT !.deployment = d]
           made == [recovery |-> r, candidate |-> recovery[r].selected, status |-> "complete",
                    record |-> "registered"]
<1>1. Version(r) /\ Exists(r) /\ "deployed" \in Status
  BY DEF Simulate, Version, Status
<1>2. adv \in Recovery /\ adv.status = "deployed" /\ recovery[r] \in Recovery
  BY <1>1, AdvancedType
<1>3. new \in Recovery /\ new.deployment = d /\ new.status = "deployed"
  BY <1>2 DEF Recovery
<1>4. Store(r, new) /\ UNCHANGED <<registry, request>>
  BY DEF Simulate
<1>5. /\ recovery'[r] = new /\ new # None
      /\ \A s \in Recoveries \ {r} : recovery'[s] = recovery[s]
  BY <1>3, <1>4, StoreAssumption DEF Store, TypeOK
<1>6. made \in Deployment
  BY <1>2 DEF Simulate, Deployment, Recovery, Record
<1>7. /\ deployment[d] = None /\ deployment'[d] = made /\ made # None
      /\ \A e \in Deployments \ {d} : deployment'[e] = deployment[e]
  BY <1>6, StoreAssumption DEF Simulate, TypeOK
<1>a. /\ deployment'[d] # None
      /\ deployment'[d].recovery = r /\ deployment'[d].status = "complete"
  BY <1>7
<1>b. recovery'[r].deployment = d /\ \A s \in Recoveries \ {r} : recovery'[s] = recovery[s]
  BY <1>3, <1>5
<1>8. HoldersAreActive'
  BY <1>1, <1>3, <1>4, HoldersStayActive DEF registry
<1>9. \A s \in Recoveries : recovery[s] # None => recovery[s].deployment # d
  BY <1>7, StoreAssumption DEF DeploymentsAreOwned, Exists
<1>10. DeploymentsAreOwned'
  <2>1. \A e \in Deployments : deployment[e] # None => deployment[e].recovery \in Recoveries
    BY DEF TypeOK, Deployment
  <2>2. ASSUME NEW e \in Deployments, deployment'[e] # None
        PROVE  /\ recovery'[deployment'[e].recovery] # None
               /\ recovery'[deployment'[e].recovery].deployment # None
    <3>1. recovery'[r] # None /\ recovery'[r].deployment # None
      BY <1>5, <1>b, StoreAssumption
    <3>2. CASE e = d
      BY <1>a, <3>1, <3>2
    <3>3. CASE e # d
      <4>1. deployment'[e] = deployment[e]
        BY <1>7, <3>3
      <4>2. QED
        BY <2>1, <2>2, <3>1, <4>1, <1>b DEF DeploymentsAreOwned, Exists
    <3>4. QED
      BY <3>2, <3>3
  <2>3. \A s \in Recoveries : recovery[s] # None =>
          recovery[s].deployment \in Deployments \cup {None}
    BY DEF TypeOK, Recovery
  <2>4. ASSUME NEW s \in Recoveries, recovery'[s] # None, recovery'[s].deployment # None
        PROVE  /\ deployment'[recovery'[s].deployment] # None
               /\ deployment'[recovery'[s].deployment].recovery = s
    <3>1. CASE s = r
      BY <1>a, <1>b, <3>1
    <3>2. CASE s # r
      BY <1>5, <1>7, <1>9, <2>3, <2>4, <3>2 DEF DeploymentsAreOwned, Exists
    <3>3. QED
      BY <3>1, <3>2
  <2>5. QED
    BY <2>2, <2>4 DEF DeploymentsAreOwned, Exists
<1>11. CompensationIsShown'
  <2> SUFFICES ASSUME NEW s \in Recoveries, NEW e \in Deployments,
                      recovery'[s] # None, recovery'[s].status = "deployed",
                      recovery'[s].deployment = e, deployment'[e].status = "requires_new_recovery",
                      deployment'[e].record # "interrupted"
               PROVE  \E x \in Clients : Compensating(x, e)'
    BY DEF CompensationIsShown, Exists
  <2>1. s # r
    BY <1>a, <1>b
  <2>2. e # d
    BY <1>a
  <2>3. \E x \in Clients : Compensating(x, e)
    BY <1>5, <1>7, <2>1, <2>2 DEF CompensationIsShown, Exists
  <2>4. QED
    BY <1>4, <2>3 DEF Compensating
<1>12. QED
  BY <1>8, <1>10, <1>11

\* The registry forgets, or a compensation starts.
LEMMA RestsKeep ==
  ASSUME IInv, [Next]_vars, Rests, \A x \in Clients, d \in Deployments : ~UpdateRecovery(x, d)
  PROVE  HoldersAreActive' /\ DeploymentsAreOwned' /\ CompensationIsShown'
<1> USE DEF IInv
<1>1. recovery' = recovery
  BY DEF Rests, SelectRefused, ValidateRefused, AskValidation, Compensate, ReadVersion, Restart,
    Tick, vars
<1>2. \A h \in live' : h \in live /\ hold'[h] = hold[h]
  <2>1. ASSUME NEW c \in Candidates, Holds!AcquireRefused(Tenant, Needs[c])
        PROVE  \A h \in live' : h \in live /\ hold'[h] = hold[h]
    BY <2>1 DEF Holds!AcquireRefused, Holds!Drop
  <2>2. CASE Holds!Look \/ Holds!Tick \/ UNCHANGED registry \/ Restart
    BY <2>2 DEF Holds!Look, Holds!Drop, Holds!Tick, registry, Restart
  <2>3. QED
    BY <2>1, <2>2 DEF Rests, SelectRefused, ValidateRefused, AskValidation, Compensate, ReadVersion,
      Tick, vars
<1>3. HoldersAreActive'
  BY <1>1, <1>2 DEF HoldersAreActive, Exists
<1>4. \A d \in Deployments : deployment[d] # None =>
        deployment'[d] # None /\ deployment'[d].recovery = deployment[d].recovery
  BY DeploymentsStay
<1>5. \A d \in Deployments : deployment'[d] # None => deployment[d] # None
  BY DEF Rests, SelectRefused, ValidateRefused, AskValidation, Compensate, CompensateInRegistry,
    ReadVersion, Restart, Tick, vars, TypeOK
<1>6. DeploymentsAreOwned'
  <2>1. \A s \in Recoveries : recovery[s] # None =>
          recovery[s].deployment \in Deployments \cup {None}
    BY DEF TypeOK, Recovery
  <2>2. QED
    BY <1>1, <1>4, <1>5, <2>1 DEF DeploymentsAreOwned, Exists
<1>7. CompensationIsShown'
  <2> SUFFICES ASSUME NEW r \in Recoveries, NEW d \in Deployments,
                      recovery[r] # None, recovery[r].status = "deployed",
                      recovery[r].deployment = d, deployment'[d].status = "requires_new_recovery",
                      deployment'[d].record # "interrupted"
               PROVE  \E x \in Clients : Compensating(x, d)'
    BY <1>1 DEF CompensationIsShown, Exists
  <2>1. deployment[d] # None /\ deployment[d] \in Deployment
    BY StoreAssumption DEF DeploymentsAreOwned, Exists, TypeOK
  <2>2. ASSUME NEW x \in Clients, NEW e \in Deployments, Compensate(x, e)
        PROVE  deployment'[d] = deployment[d] \/ Compensating(x, d)'
    <3>1. CASE d = e
      <4>1. request'[x] = [deployment |-> d, version |-> 0]
        BY <2>2, <3>1 DEF Compensate, Begin, TypeOK
      <4>2. request'[x] \in Request
        BY <4>1, StoreAssumption DEF Request
      <4>3. QED
        BY <4>1, <4>2, StoreAssumption DEF Compensating
    <3>2. CASE d # e
      BY <2>2, <3>2 DEF Compensate, CompensateInRegistry, TypeOK
    <3>3. QED
      BY <3>1, <3>2
  <2>3. ~Restart
    <3>1. SUFFICES ASSUME Restart PROVE FALSE
      OBVIOUS
    <3>2. deployment'[d] = Forgotten(d)
      BY <2>1, <3>1 DEF Restart
    <3>3. /\ deployment[d].status = "requires_new_recovery"
          /\ deployment[d].record # "interrupted" /\ ~\E x \in Clients : Compensating(x, d)
      BY <2>1, <3>2 DEF Deployment, Forgotten
    <3>4. QED
      BY <3>3 DEF CompensationIsShown, Exists
  <2>4. CASE deployment'[d] = deployment[d]
    <3>1. PICK x \in Clients : Compensating(x, d)
      BY <2>4 DEF CompensationIsShown, Exists
    <3>2. QED
      BY <2>3, <3>1, CompensationsStay
  <2>5. QED
    BY <2>2, <2>3, <2>4
    DEF Rests, SelectRefused, ValidateRefused, AskValidation, ReadVersion, Tick, vars
<1>8. QED
  BY <1>3, <1>6, <1>7

----------------------------------------------------------------------------
(* The inductive invariant, and what follows from it.                       *)

\* The empty store satisfies the inductive invariant.
LEMMA Initially == Init => IInv
<1> SUFFICES ASSUME Init PROVE IInv
  OBVIOUS
<1>2. Holds!TypeOK /\ Holds!IndexExact
  BY StoreAssumption
  DEF Init, Holds!Init, Holds!TypeOK, Holds!IndexExact, Holds!Slots, Holds!NoConflict
<1>3. TypeOK
  BY <1>2 DEF Init, TypeOK
<1>4. QED
  BY <1>2, <1>3
  DEF Init, Holds!Init, IInv, HoldsAreAsked, HoldersAreActive, DeploymentsAreOwned, PendingAreDeployed,
    CompensationIsShown, Compensating, Exists

\* Every step keeps it.
LEMMA Inductive == IInv /\ [Next]_vars => IInv'
<1> SUFFICES ASSUME IInv, [Next]_vars PROVE IInv'
  OBVIOUS
<1>1. Holds!TypeOK' /\ Holds!IndexExact'
  BY CallsRegistry, RegistryKept DEF IInv, TypeOK
<1>2. TypeOK'
  BY <1>1, OwnTypes DEF IInv, TypeOK
<1>3. HoldsAreAsked' /\ PendingAreDeployed'
  BY HoldsStayAsked, PendingStay DEF IInv
<1>4. HoldersAreActive' /\ DeploymentsAreOwned' /\ CompensationIsShown'
  BY StepsMove, MovesKeep, CreateKeeps, SimulateKeeps, RestsKeep
<1>5. QED
  BY <1>1, <1>2, <1>3, <1>4 DEF IInv

\* So it holds in every reachable state.
LEMMA Invariance == Spec => []IInv
  BY Initially, Inductive, PTL DEF Spec

\* Every record has the shape the code gives it, and the registry's too.
THEOREM TypeCorrect == Spec => []TypeOK
<1>1. IInv => TypeOK
  BY DEF IInv
<1>2. QED
  BY <1>1, Invariance, PTL

\* As long as a recovery counts as superseded it holds nothing.
THEOREM SupersededHoldNothing == Spec => []SupersededHoldsNothing
<1>1. IInv => SupersededHoldsNothing
  BY DEF IInv, HoldersAreActive, SupersededHoldsNothing
<1>2. QED
  BY <1>1, Invariance, PTL

\* Two plans that could both be validated now need different resources: their
\* holds would share a slot of the index otherwise.
THEOREM DisjointPlans == Spec => []ValidatablePlansAreDisjoint
<1>1. IInv => ValidatablePlansAreDisjoint
  <2> SUFFICES ASSUME IInv, NEW c \in Candidates, NEW d \in Candidates,
                      AssertCurrent(c), AssertCurrent(d), c # d,
                      NEW s \in Needs[c], s \in Needs[d]
               PROVE  FALSE
    BY DEF ValidatablePlansAreDisjoint
  <2>1. /\ kept[c] \in live /\ hold[kept[c]] # None /\ s \in hold[kept[c]].resources
        /\ kept[d] \in live /\ hold[kept[d]] # None /\ s \in hold[kept[d]].resources
    BY DEF AssertCurrent, Holds!Found, IInv, HoldsAreAsked, TypeOK, Holds!TypeOK
  <2>2. <<Tenant, s>> \in Holds!SlotsOf(kept[c]) /\ <<Tenant, s>> \in Holds!SlotsOf(kept[d])
    BY <2>1 DEF Holds!SlotsOf, IInv, TypeOK, Holds!TypeOK, Holds!Hold
  <2>a. <<Tenant, s>> \in Holds!Slots /\ live \subseteq HoldIds
    BY StoreAssumption DEF Holds!Slots, IInv, TypeOK, Holds!TypeOK
  <2>3. kept[c] = kept[d]
    BY <2>1, <2>2, <2>a DEF Holds!IndexExact, IInv
  <2>4. QED
    BY <2>3 DEF AssertCurrent
<1>2. QED
  BY <1>1, Invariance, PTL

\* A compensated deployment is not shown as deployed once its request is done,
\* unless the process ended in the middle of the request.
THEOREM ShownCompensations == Spec => []CompensationIsShown
<1>1. IInv => CompensationIsShown
  BY DEF IInv
<1>2. QED
  BY <1>1, Invariance, PTL

----------------------------------------------------------------------------
(* What the endpoint has checked is still so when validate runs, or validate *)
(* notices by the version.                                                   *)

\* A request that carries the current version has read the current selection.
ReadsAreCurrent ==
  \A x \in Clients, r \in Recoveries : Validating(x, r) =>
    /\ Exists(r)
    /\ recovery[r].deployment = None =>
         /\ request[x].version <= recovery[r].version
         /\ request[x].version = recovery[r].version =>
              recovery[r].selected = request[x].candidate

\* The selection of a recovery that is not deployed changes with its version.
LEMMA SelectionMovesVersion ==
  ASSUME IInv, [Next]_vars, NEW r \in Recoveries, Exists(r)
  PROVE  /\ Exists(r)'
         /\ recovery'[r].deployment = None =>
              /\ recovery[r].deployment = None
              /\ \/ recovery'[r].version > recovery[r].version
                 \/ /\ recovery'[r].version = recovery[r].version
                    /\ recovery'[r].selected = recovery[r].selected
<1>1. recovery[r] \in Recovery
  BY DEF Exists, IInv, TypeOK
<1>2. CASE \E s \in Recoveries, new \in Recovery : Moves(s, new)
  <2>1. PICK s \in Recoveries, new \in Recovery : Moves(s, new)
    BY <1>2
  <2>2. recovery'[s] = new /\ new # None /\ \A t \in Recoveries \ {s} : recovery'[t] = recovery[t]
    BY <2>1, StoreAssumption DEF Moves, Store, IInv, TypeOK
  <2>3. QED
    BY <2>1, <2>2 DEF Moves, Exists
<1>3. ASSUME NEW s \in Recoveries, NEW d \in Disruptions, NEW a \in Actors, Create(s, d, a)
      PROVE  /\ recovery'[r] \in Recovery
             /\ recovery'[r].deployment = recovery[r].deployment
             /\ recovery'[r].version = recovery[r].version
             /\ recovery'[r].selected = recovery[r].selected
  <2>1. \/ recovery'[r] = recovery[r]
        \/ recovery'[r] = [recovery[r] EXCEPT !.status = "superseded"]
    BY <1>3 DEF Create, Exists
  <2>2. QED
    BY <1>1, <2>1 DEF Recovery, Status
<1>4. ASSUME NEW s \in Recoveries, NEW d \in Deployments, Simulate(s, d)
      PROVE  recovery'[r] = recovery[r] \/ (recovery'[r] # None /\ recovery'[r].deployment # None)
  <2>1. CASE r # s
    BY <1>4, <2>1 DEF Simulate, Store, IInv, TypeOK
  <2>2. CASE r = s
    <3>1. Version(s) /\ "deployed" \in Status
      BY <1>4 DEF Simulate, Status
    <3>2. Advanced(s, "deployed") \in Recovery
      BY <3>1, AdvancedType DEF IInv
    <3>3. recovery'[s] = [Advanced(s, "deployed") EXCEPT !.deployment = d]
      BY <1>4 DEF Simulate, Store, IInv, TypeOK
    <3>4. recovery'[s] \in Recovery /\ recovery'[s].deployment = d
      BY <3>2, <3>3 DEF Recovery
    <3>5. QED
      BY <2>2, <3>4, StoreAssumption
  <2>3. QED
    BY <2>1, <2>2
<1>5. CASE Rests
  BY <1>5 DEF Rests, SelectRefused, ValidateRefused, AskValidation, Compensate, ReadVersion, Restart,
    Tick, vars, Exists
<1>6. QED
  BY <1>2, <1>3, <1>4, <1>5, StepsMove, StoreAssumption DEF Exists

\* A validation begins with AskValidation, and then waits.
LEMMA ValidationsBegin ==
  ASSUME IInv, [Next]_vars, NEW x \in Clients, NEW r \in Recoveries, Validating(x, r)'
  PROVE  \/ Validating(x, r) /\ request'[x] = request[x]
         \/ \E c \in Candidates, v \in 1..MaxVersion : AskValidation(x, r, c, v)
<1>1. request'[x] = request[x] => Validating(x, r)
  BY DEF Validating
<1>2. ASSUME NEW y \in Clients, Thread(y)
      PROVE  \/ request'[x] = request[x]
             \/ \E c \in Candidates, v \in 1..MaxVersion : AskValidation(x, r, c, v)
  <2>1. ASSUME NEW s \in Recoveries, NEW c \in Candidates, NEW v \in 1..MaxVersion,
               AskValidation(y, s, c, v)
        PROVE  request'[x] = request[x] \/ AskValidation(x, r, c, v)
    <3>1. CASE x # y
      BY <2>1, <3>1 DEF AskValidation, Begin, IInv, TypeOK
    <3>2. CASE x = y
      <4>1. request'[x].recovery = s
        BY <2>1, <3>2 DEF AskValidation, Begin, IInv, TypeOK
      <4>2. QED
        BY <2>1, <3>2, <4>1 DEF Validating
    <3>3. QED
      BY <3>1, <3>2
  <2>2. ASSUME NEW s \in Recoveries, Validate(y, s) \/ ValidateRefused(y, s)
        PROVE  request'[x] = request[x]
    BY <2>2 DEF Validate, ValidateRefused, Finish, IInv, TypeOK, Validating
  <2>3. ASSUME NEW e \in Deployments, Compensate(y, e)
        PROVE  request'[x] = request[x]
    BY <2>3 DEF Compensate, Begin, IInv, TypeOK, Validating
  <2>4. ASSUME NEW e \in Deployments, ReadVersion(y, e)
        PROVE  request'[x] = request[x]
    <3>1. /\ request[y] \in [deployment: Deployments, version: 0..(MaxVersion - 1)]
          /\ request'[y] = [request[y] EXCEPT !.version = recovery[deployment[e].recovery].version]
      BY <2>4 DEF ReadVersion, Compensating, IInv, TypeOK, Request
    <3>2. "candidate" \notin DOMAIN request'[y]
      BY <3>1
    <3>3. x # y
      BY <3>2 DEF Validating
    <3>4. QED
      BY <2>4, <3>3 DEF ReadVersion, IInv, TypeOK
  <2>5. ASSUME NEW e \in Deployments, UpdateRecovery(y, e)
        PROVE  request'[x] = request[x]
    BY <2>5 DEF UpdateRecovery, Finish, IInv, TypeOK, Validating
  <2>6. QED
    BY <1>2, <2>1, <2>2, <2>3, <2>4, <2>5 DEF Thread
<1>3. ASSUME NEW s \in Recoveries, Method(s)
      PROVE  request'[x] = request[x]
  BY <1>3 DEF Method, Create, ApproveSuggestion, DecideSuggestion, Select, SelectRefused,
    Reject, Approve, Simulate, Rollback
<1>4. CASE Restart
  BY <1>4 DEF Restart, Validating
<1>5. CASE Tick \/ UNCHANGED vars
  BY <1>1, <1>5 DEF Tick, vars
<1>6. \/ \E y \in Clients : Thread(y)
      \/ \E s \in Recoveries : Method(s)
      \/ Restart \/ Tick \/ UNCHANGED vars
  BY DEF Next
<1>7. CASE \E y \in Clients : Thread(y)
  BY <1>1, <1>2, <1>7
<1>8. CASE \E s \in Recoveries : Method(s)
  BY <1>1, <1>3, <1>8
<1>9. QED
  BY <1>4, <1>5, <1>6, <1>7, <1>8

\* A request's picture goes out of date only together with its version.
LEMMA ReadsStayCurrent ==
  ASSUME IInv, ReadsAreCurrent, [Next]_vars
  PROVE  ReadsAreCurrent'
<1> SUFFICES ASSUME NEW x \in Clients, NEW r \in Recoveries, Validating(x, r)'
             PROVE  /\ Exists(r)'
                    /\ recovery'[r].deployment = None =>
                         /\ request'[x].version <= recovery'[r].version
                         /\ request'[x].version = recovery'[r].version =>
                              recovery'[r].selected = request'[x].candidate
  BY DEF ReadsAreCurrent
<1>1. CASE Validating(x, r) /\ request'[x] = request[x]
  <2>1. Exists(r) /\ recovery[r] \in Recovery
    BY <1>1 DEF ReadsAreCurrent, Exists, IInv, TypeOK
  <2>2. Exists(r)' /\ recovery'[r] \in Recovery
    BY <2>1, SelectionMovesVersion, OwnTypes DEF Exists, IInv
  <2>3. request[x].version \in Nat
    <3>1. request[x] \in [recovery: Recoveries, candidate: Candidates, version: 1..MaxVersion]
      BY <1>1 DEF Validating, IInv, TypeOK, Request
    <3>2. QED
      BY <3>1, StoreAssumption
  <2>4. recovery[r].version \in Nat /\ recovery'[r].version \in Nat
    BY <2>1, <2>2, StoreAssumption DEF Recovery
  <2>5. QED
    BY <1>1, <2>1, <2>2, <2>3, <2>4, SelectionMovesVersion DEF ReadsAreCurrent
<1>2. ASSUME NEW c \in Candidates, NEW v \in 1..MaxVersion, AskValidation(x, r, c, v)
      PROVE  /\ Exists(r)' /\ recovery' = recovery /\ recovery[r].selected = c
             /\ v <= recovery[r].version
             /\ request'[x].version = v /\ request'[x].candidate = c
  BY <1>2 DEF AskValidation, Begin, Exists, IInv, TypeOK
<1>3. QED
  BY <1>1, <1>2, ValidationsBegin

\* The endpoint's check of the selection is stale when validate runs; what is
\* validated is nevertheless the candidate the caller named.
THEOREM NamedPlan == Spec => NamedPlanIsValidated
<1>1. Init => ReadsAreCurrent
  BY StoreAssumption DEF Init, ReadsAreCurrent, Validating
<1>a. IInv /\ ReadsAreCurrent /\ [Next]_vars => ReadsAreCurrent'
  BY ReadsStayCurrent
<1>2. Spec => []ReadsAreCurrent
  BY <1>1, <1>a, Invariance, PTL DEF Spec
<1>3. ASSUME ReadsAreCurrent, NEW x \in Clients, NEW r \in Recoveries,
             Validate(x, r), recovery[r].deployment = None
      PROVE  recovery[r].selected = request[x].candidate
  BY <1>3 DEF ReadsAreCurrent, Validate, ReachesRegistry, SameVersion
<1>4. ReadsAreCurrent /\ [Next]_vars =>
        [\A x \in Clients, r \in Recoveries :
           Validate(x, r) /\ recovery[r].deployment = None
             => recovery[r].selected = request[x].candidate]_vars
  BY <1>3
<1>5. QED
  BY <1>2, <1>4, PTL DEF Spec, NamedPlanIsValidated
============================================================================
