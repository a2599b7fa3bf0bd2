# skysolver: specifications, model checking and proofs

skysolver recovers an airline's operation after a disruption: solver tiers
propose crew assignments, people decide and approve, and the chosen plan is
published to the carrier's systems.  The specifications here model the parts of
the code that decide whether this is done *correctly* when several people,
servers and adapters work on the same recovery: reservation of resources, the
authorisation of a plan, its deployment, the way of its events to the
projections, what a solver or an agent may propose, and what remains after a
crash, a repeat or a late answer.

All paths below are relative to the repository's root.

## 1. Inventory

### 1.1 The parts and how they interact

```
 dashboard --> API (production_api) --> RecoveryStore (demo)  --> hold registry
                                  |        |                 \--> deployment registry
                                  |        +--> solver tiers, rules engine, certificates
                                  +--> durable service --> Aurora: events, outbox, snapshots, receipts
                                                               |
              outbox worker <-----------------------------------+
                   |  broker
                   v
              consumers --> projections        carrier adapters <--> ingestion, deployments
```

There are two implementations of the recovery workflow.  The *synthetic* one
(`deployment/recovery_api.py`) keeps everything in memory behind one lock and
writes a JSON file; it serves the demo API.  The *durable* one
(`core/durable_recovery_workflow.py` over `state/durable_recovery_store.py`) is
written for several servers over one Aurora database.

| Component | State | Operations | Interacts through | What is hard |
|---|---|---|---|---|
| Resource holds, `core/resource_holds.py` | holds by id, index from (tenant, resource) to hold | acquire, get, assert_current, release, release_for_recovery, release_all_for_recovery | calls under its lock | lazy expiry: nothing happens when a hold expires, only at the next call |
| Durable recovery service, `core/durable_recovery_workflow.py`, `state/durable_recovery_store.py` | rows of aggregate_stream, recovery_workflow_snapshot, operational_event, transactional_outbox, workflow_command | create, select, record_validation, record_joint_feasibility, approve, authorize_deployment, replay | database transactions; idempotency keys; optimistic versions | check and commit are two transactions; crashes with an unknown outcome; repeats |
| Deployment commands, `deployment/command_state.py` | one aggregate per deployment: commands, status, version | create, mark_sent, acknowledge, timeout, retry, compensate, acknowledge_compensation | calls under its lock; answers of the carrier | late answers, retries and compensations in any order |
| Recovery store (demo API), `deployment/recovery_api.py`, `deployment/production_api.py` | recoveries with candidates, approvals and suggestions; both registries | create, decide, decide_tier3_suggestion, validate, approve, deploy, simulate_deployment, compensate, rollback | method calls under one lock; two requests outside it | stale reads, supersession, restart without the registries |
| Candidate lifecycle, `core/candidate_lifecycle.py`, `state/immutable_artifacts.py`, `state/candidate_repository.py` | artifacts in a bucket, their rows | create, evaluate_upgrade | solver results | a death between two writes, upgrades that arrive late |
| Event store, outbox and publisher, `state/postgres_event_store.py`, `deployment/outbox_worker.py` | operational_event, transactional_outbox rows with claims | append, claim, mark published or failed, publish_batch | SQL; broker | crash between claim and mark; back-off against order |
| Broker consumer, `state/msk_consumer.py`, `state/read_model_repository.py` | consumer offsets, projection receipts | process_one, dead letters, run | broker | at-least-once delivery |
| Durable deployment repository, `state/deployment_repository.py` | command rows with claims | claim, mark_published, acknowledge, timeout, release_claim | SQL; workers | claims of dead workers, replays of answers |
| Cross-partition saga, `state/reconciliation.py` | one move between two partitions | reserve_source, reserve_destination, validate, begin_commit, acknowledge_partition, complete_compensation | both partitions | one side commits, the other rejects |
| Event stream, view and reconciler, `state/event_store.py` | in-memory log, materialized view, reconciler status | append, apply, reconcile | callbacks | order, duplicates, the size of a batch |
| Recovery agent, `agents/` | a run's assignments, escalations and trace | the tools a planner may call | tool calls of any planner | guards against an arbitrary planner |
| Rules governance, `rules/governance.py`, `rules/certificates.py`, `rules/validation_service.py` | rule packages and their approvals | submit, approve, shadow, activate, rollback; issue and verify | | approvals by different people, effective periods |
| Crew rules, `rules/engine.py`, `rules/operational_profile.py` | none | validate_assignment | | boundaries of times and limits |
| Ingestion and adapters, `integrations/` | cursors, seen records, circuit breaker | ingest, reconcile, fetch, publish | carrier systems | reordering, half-open breaker |
| Solver tiers, `solvers/`, `deployment/worker.py` | one solve | solve_tier1, solve_tier2, solve_recovery, solve_partition_request | the crew rules; each other's result | a deadline anywhere, an optimizer that proves nothing |
| Passengers, capacity, pre-staging, `passengers/`, `state/capacity_manager.py`, `core/recovery_coordinator.py`, `predictive/` | booked seats | rebook, reserve, release, coordinate | proposals of crew, aircraft and passengers | proposals made apart, the last seat |
| Authentication, configuration, artifacts, observability, chaos, dashboard | - | stateless checks, I/O, presentation | | - |

`PROJECT.json` lists the same components with what is modelled of each, and the
hazards of the code line by line.

### 1.2 What makes each core component correct

* Holds: no resource is promised twice; the two tables agree; nobody is refused
  because of an expired hold; every hold ends.
* Durable recovery: whatever the interleaving, a recovery goes through its
  stages in order, on evidence about one candidate, with three people; every
  mutation is recorded exactly once in every table; an expired plan goes nowhere.
* Deployment commands, in memory and in the database: the verdict tells the
  truth; nothing the carrier has taken is sent again; two callers do not act on
  one version; a dead process does not keep a command for itself.
* Recovery store: what may be validated does not overlap; superseded recoveries
  hold nothing; a plan is validated under its name; a compensation is visible.
* Outbox and consumers: an event that was committed enters the projection exactly
  once, whatever fails, is lost or is repeated on its way.
* Saga: both partitions agree on a move or it is compensated.
* Event stream and ingestion: the view is what a replay gives; the newest record wins.
* Rules packages and certificates: only rules that two others approved come into
  force; a certificate stands for assignments that were all judged legal, and for nothing
  but what was signed.
* Solver tiers: what a caller gets can be flown, and is no worse than what it had.
* Candidates: an upgrade never takes legal assignments back.
* Agent: no planner gets past the guards of its tools, and the heuristic one ends.
* Passengers: a plan is deployable only if crew, aircraft and seats fit together.

## 2. Modules

| Module | Models | Composes |
|---|---|---|
| `ResourceHolds` | the hold registry | |
| `RecoveryLifecycle` | the abstract, atomic life cycle of a recovery | |
| `DurableRecovery` | the durable service and store | refines `RecoveryLifecycle` |
| `DeploymentCommands` | the command state machine of one deployment | |
| `RecoveryStore` | the demo store and its API | calls `ResourceHolds` as `Holds` |
| `Outbox` | the transactional outbox and its publishers | |
| `EventConsumer` | the consumer group and its projection | extends `Outbox` through the broker's `topic`; refines `ExactlyOnce` |
| `ExactlyOnce` | what outbox and consumer promise a projection | |
| `DeploymentDispatch` | durable deployment commands, their dispatchers and readers | |
| `PartitionSaga` | a move between partitions | |
| `RulePackages` | rules governance | |
| `EventStream` | the in-memory event store, its view and the reconciler | |
| `Integration` | ingestion and the circuit breaker | |
| `CrewLegality` | the crew rules, as operators | |
| `TieredSolving` | one solve through the tiers | extends `CrewLegality` |
| `LegalityCertificates` | the validation service and its certificates | extends `CrewLegality` |
| `CandidateLifecycle` | immutable candidates and upgrades | |
| `RecoveryAgent` | a run of the recovery agent | |
| `PassengerRecovery` | rebooking, seats, joint feasibility | |
| `MCServices` | instances of the components that share no state | extends twelve of the above |
| `MCPassengerRecovery` | an instance of `PassengerRecovery`, for `MCServices` and a run of its own | extends `PassengerRecovery` |
| other `MC*` | instances of one component | extend the module of that name |
| `ResourceHolds_proofs`, `RecoveryStore_proofs`, `DurableRecovery_proofs`, `DeploymentCommands_proofs`, `EventConsumer_proofs` | theorems and proofs about one module | extend the module of that name; `RecoveryStore_proofs` also instantiates `ResourceHolds_proofs` |
| `Coordination_proofs` | theorems and proofs about components that decide under versions, locks and time-outs | extends `PartitionSaga`, `DeploymentDispatch`, `RulePackages`, `Integration`, `CandidateLifecycle`, `EventStream` |
| `Solving_proofs` | theorems and proofs about components that look for a plan and judge it | extends `RecoveryAgent`, `PassengerRecovery`, `TieredSolving`, `LegalityCertificates` |
| `FoldLemmas` | induction and folds over finite sets, for the last two | |

### ResourceHolds

`hold`, `live` and `index` are the registry's `_holds` and `_resource_index`:
`live` are the identifiers in `_holds`, and `hold` keeps what was issued, so
that an identifier is never issued again.  `now` is the clock; `Tick` stands for
time passing and is the only thing that makes a hold expire.  Every method
sweeps expired holds first, which is part of its action (`Drop`).  `conflict`
is what the last `acquire` reported.  `Look` stands for all calls that only
sweep: `get`, `assert_current`, and releases by somebody not entitled.

### RecoveryLifecycle and DurableRecovery

`RecoveryLifecycle` says what a caller may rely on: six atomic commands, each
with its condition on the stored snapshot.

`DurableRecovery` is the code.  A command is a sequence of steps of one caller:
the method checks the snapshot it has read and builds the next one (one action
per method: `Create`, `SelectCandidate`, ...; the caller's request is kept in
`call`, the mutation in `next`); `Reserve` inserts the idempotency key; `Lock`
takes the version row and compares it; `Commit` writes all five tables.
`AlreadyAnswered` and `Conflict` are the other outcomes.  PostgreSQL's locks are
modelled by who waits for whom (`KeyLocked`, `StreamLocked`).  `Crash` rolls back, and a
commit may lose its answer; afterwards the caller may `Repeat` the command with
the same key or `GiveUp`.  `Expire` and `Lapse` end a candidate's validity and
its hold at any moment, between check and commit too.

The tables correspond by name: `stream` is `aggregate_stream`, `snapshot` and
`row` are the two columns of `recovery_workflow_snapshot`, `receipt` is
`workflow_command`.

### DeploymentCommands and DeploymentDispatch

`DeploymentCommands` is one deployment in memory.  `command`, `status` and
`version` are the aggregate; `seen` is the version each caller read last, by a
request or by a copy taken outside the lock.  An answer of the carrier may come
at any time or never: nothing but the status and the version restrains it.

`DeploymentDispatch` is the durable form of it.  `order` has the rows of
`deployment_command_projection` with their claims, `verdict`, `revision` and
`ended` the row of `deployment_projection`; `claims` is what a process remembers
of what it took (`ClaimCommands`), and `sent` what the carrier has taken without
this being recorded yet.  `Transition` is `_transition`, with the verdict derived
in the same transaction.  `DispatcherCrash` forgets `claims`; the row keeps
`claimedBy`.  `ReadDeployment` and `ReadCommands` are the two queries of one
answer of the read model.

### RecoveryStore

A method under the store's lock is one action: `Create` with the supersession of
earlier recoveries and the release of their holds, `Select`, `SelectRefused`,
`Reject`, `ApproveSuggestion`, `DecideSuggestion`, `Approve`, `Simulate`,
`Rollback`.  Two requests are split where the code lets others in between:
`AskValidation` is the endpoint's comparison of the selected candidate and
`Validate` or `ValidateRefused` the method afterwards; `Compensate`,
`ReadVersion` and `UpdateRecovery` are `compensate_deployment`, which takes only
the registry's lock.  `Restart` reads the recoveries back (with the holds their
candidates remember, `kept`) and finds both registries empty.

`deploy` is always refused in this code base: no code sets a candidate's joint
feasibility to deployable.  So every deployment comes from
`simulate_deployment`, which acknowledges every command; that is why a
deployment is only `complete` or `requires_new_recovery` (each plan has an irreversible
passenger command).  `record` says what became of the registry's record of it: it is
`registered`, or was `forgotten` by a restart, or a crash `interrupted` the request that was
compensating it, after the registry's part and before the recovery's.  The status stays
what it was, whatever the registry remembers.

### Outbox, EventConsumer and ExactlyOnce

`rows` is `transactional_outbox` in the order of `created_at`, `topic` the broker's
partition, `batch` what a publisher has claimed and not handled, `outcome` what it
learnt of the first of these.  A publisher claims (`Claim`), sends (with an
acknowledgement, a failure, or a delivery that comes `late`, after the time-out),
and records the result in a transaction that may fail too; an error ends the
process, and so does a crash, with its claims left behind.  `AppendEvent` is the
transaction of `append` with its optimistic version.

A consumer polls (`position`, `stage`), applies the event in one transaction
with `consumed_event`, `consumer_checkpoint` and the projection, or publishes it
to the dead-letter topic, and commits the offset, each of which may fail.
`Rebalance` takes the partition away from a consumer that is still at work.
Both modules share the budget `faults`.

`ExactlyOnce` is the promise: `appended` grows, and `applied` takes each event
once.  The mapping is `appended <- Len(rows)`, `applied <- view`.

### PartitionSaga

`saga` is the record of `reconciliation.py`; each method is an action that
checks version (`read`) and status.  `answers` and `unlawful` are history: what
the partitions answered, and whether validation had findings.

### RulePackages

One tenant.  `package` are the registered packages, `activeId` is
`_active_by_tenant`, `today` the clock for effective periods.  `RollbackTo` is
`rollback`, which does not look at the period, as in the code.

### EventStream and Integration

`journal` is `_all_events`; `crewView` is the view that has applied each event as
it was appended.  An event is known by its place in `journal`, and a stream is the set of
the places of a partition's events.  `Replay` folds `apply` over it in the order of
`get_partition_stream` (sequence, then timestamp, then identifier), the event that the
stream ends with (`LastOf`) last; `Deserialized` reads the file back.  `Reconcile` is the
reconciler's whole batch (`OpenMoves`) with the events it appends.

`Integration` has `ingest` with all its outcomes, and the circuit breaker.  The breaker has
no lock, so `Allow`, `Succeed` and `Fail` are each a sequence of single reads and writes of
one caller: `thread` says where each caller is (`Steps`) and what it has read of the counter.
Any caller may run between two steps of another.

### CrewLegality, TieredSolving, LegalityCertificates

`CrewLegality` has the rules of the engine and of the operator's profile, each
the set of the findings it reports; times are half hours.

`TieredSolving` is one solve: `PlaceLeg` is one turn of the greedy loop with every
insertion it tries, `FinishTier1` the local search, `Optimize` the legal columns and
any selection that the master problem's constraints allow, with or without a
proof of optimality, `OptimizerFails` its failure; `DeadlinePasses` at any time.
The callers are the orchestrator and the two jobs of the worker.

`LegalityCertificates` has `validate` over requests of one or two assignments with their
evidence and a candidate artifact, a document of the client's which the service signs
(`Signed`) together with the request and the rules package, and compares with nothing.
`Verify` shows the certificate with any of these three changed or unchanged.

### CandidateLifecycle

`create` is `Archive` (the bucket) and `Index` (the row), between which the process
may die.  `Adopt` is `evaluate_upgrade` with the caller that follows it.

### RecoveryAgent

The tools' guards are `Allowed`; `HeuristicStep` is what `planner.py` does next,
`ModelCalls` is any call a language model may name, `StepDownModel` and
`Degrade` are its failures.  The engine's verdicts (`cleared`) and the qualified
candidates (`rated`) are chosen in the initial state.  `HasTurn` and `ReachLimit` are the
loop's `range(max_steps)` and its `else`: finding that nothing is left to do takes a turn too.

### PassengerRecovery

`booked` are the seats taken; `Coordinate` builds itineraries, chooses greedily per
passenger, and joins the result with the crew and aircraft proposals into
`jointPlan`, with the bookings that had a seat left in the passenger's cabin (`seated`).

### MCServices

Twelve components share no state with each other.  `focus` is chosen in the
initial state and only that component moves, so that one run visits the sum of
their states and not the product; each of its properties belongs to one
component and speaks of its variables alone.

## 3. What each run checks

All runs use TLC's breadth-first search to the end of the state space.
`CHECK_DEADLOCK FALSE` stands where a system may really stop: when all callers have
given up and every candidate has expired (`DurableRecovery`), identifiers and
versions have run out (`RecoveryStore`), every event is published and consumed
(`EventConsumer`), every command answered (`DeploymentDispatch`), a solve or an
agent's run is over (`MCServices`, `MCRecoveryAgent`).

| Run | Question | Instance and why it is enough |
|---|---|---|
| `holds` | Do table, index and conflicts agree under any mix of calls and expiry, and does every hold end, with its entries in the index? (`TypeOK`, `IndexExact`, `NoDoubleBooking`, `ConflictIsReal`, `EveryHoldEnds`) | 2 tenants, 2 recoveries, 2 owners, 2 resources, 2 holds, 3 ticks: a hold expires, is replaced, and the replacement is released, with a second tenant asking for the same names |
| `recovery_main` | Do two concurrent callers with crashes and repeats keep the tables consistent, the evidence in order, and refine the life cycle? (`TypeOK`, `StoreConsistent`, `EvidenceHolds`, `ImplementsLifecycle`, `ExpiredPlanIsFrozen`) | 1 recovery through all 6 versions, 3 actors who all hold both restricted roles, so that only the service keeps duties apart, and 6 keys, one per stage; a race needs two callers |
| `recovery_keys` | Do shared keys execute once, and does everyone who waits for a lock get an answer? (`OneReceiptPerEvent`, `WinnerIsNotStale`, `EveryCommandEnds`) | 2 callers, 2 recoveries, 3 keys: the same key for two recoveries, for two commands of one recovery, and for a repeat; waits for a key and for a version row |
| `store` | Do plans that could be validated stay disjoint, superseded recoveries empty-handed, is only the named plan validated, and is a compensated deployment ever left shown as deployed? (`TypeOK`, `SupersededHoldsNothing`, `ValidatablePlansAreDisjoint`, `NamedPlanIsValidated`, `CompensationIsShown`) | two instances in one, by the constraint on the states that a step may reach. `Competing`: 2 recoveries of one disruption, plans of which two need the same crew and one is illegal, 2 holds of 1 tick, versions to 4: select, lose the hold by expiry, supersession or restart, and find it taken; one proposer and no approvals, which these properties do not look at. `Deploying`: 1 recovery deployed twice, 2 requests at once, versions to 7, the scheduler's plan, a restart anywhere |
| `publication` | Does every committed event enter the projection once, and nothing get lost or handled twice on the way? (`PublishedReachedTheBroker`, `OneHandlerPerRow`, `NothingIsSkipped`, `ImplementsExactlyOnce`, `EveryEventIsApplied`) | 2 events of one aggregate, 2 publishers that claim both at once, 2 consumers, 1 malformed message, 2 faults in all: an event fails and is overtaken by the next, is published late and again, and reaches a consumer that has lost its partition; the second fault hits the handling of the first |
| `services` | The properties of the table below | see there |
| `recovery_replay` (violated) | Is a key reused for another command refused? (`ReplayAnswersTheSameCommand`) | 2 candidates, 2 keys |
| `commands_irreversible` (violated) | Does an irreversible action keep asking for a new recovery? (`IrreversibleRequiresNewRecovery`) | 3 required commands |
| `store_approved` (violated) | Is what is deployed what was validated and approved? (`DeployedPlanIsApproved`) | 2 plans of one recovery |
| `dispatch_reclaim` (violated) | Does a queued command outlive its dispatcher? (`CrashLeavesReclaimable`, under `DispatchFairness`) | 1 command, 2 dispatchers, one of which dies |
| `passengers_seats` (violated) | Has every passenger whom a deployable plan rebooks a seat? (`EveryBookingHasASeat`) | 2 flights, 2 passengers of different cabins who share the second |
| `agent_roster` (violated) | Does a run's plan give each crew member one flight, whatever the planner? (`CrewWorksOneFlight`) | 2 flights, 2 members |

What `services` checks, component by component:

| Component | Question | Instance and why it is enough |
|---|---|---|
| commands | Is the verdict true (`CompleteMeansAllAcked`, `VerdictHolds`), does each version have one winner (`OneWinnerPerVersion`), and is nothing resent (`PublishedIsNotResent`)? | 3 commands: required and reversible, required and irreversible, optional; 10 versions send, lose, retry and compensate |
| dispatch | Does the verdict in the database agree with the commands, and an answer of the read model with itself? (`VerdictIsDerived`) | 2 required commands and an optional one, 2 dispatchers, a failure; a partial verdict needs two required ones |
| saga | Is a complete move agreed, and a refused one compensated? (`MoveIsAgreed`) | 2 coordinators, 9 versions: all stages, with contradictory and repeated answers |
| governance | Were the rules in force approved? (`RulesInForceAreGoverned`) | 2 packages, 3 people, 2 days: the least with which one package replaces another, a submitter may try to approve, and a period ends |
| stream | Does a replay give the view? (`ReplayRebuildsView`) | 3 events of any kind, 2 partitions, 2 timestamps in any order, moves and reconciliation |
| ingestion | Does the newest record win? (`ProjectionEndsWithNewest`) | 3 records, 2 contents, 2 aggregates, 2 timestamps, all outcomes |
| breaker | Can an open circuit always be tried again? (`OpenCircuitCanBeTried`) | 3 callers against a threshold of 2, each a read or a write at a time: two of them between the steps of the third, and answers from before it opened |
| passengers | Is a deployable plan a joint one, with a seat for the last passenger on each flight? (`DeployablePlanIsJoint`) | 2 connecting flights of one economy seat, one without business, 2 passengers with different routes and cabins; seats are taken and given back before and after the plan, which is made once (`PlansOnce`): a second plan reads nothing of the first |
| solve | Can the outcome be flown, and is it no worse than the greedy one? (`OutcomeIsLegal`, `IncumbentIsKept`) | any set of 5 legs that connect too tightly, too late, on another type or as deadhead; 2 members, one resting |
| certificates | Is a certificate earned by every assignment, and does it verify only with what was signed? (`CertificateIsEarned`) | 2 members, 3 duties, evidence good and bad in ten ways; pairs, as a mistake may concern the first or last only; 2 artifacts, and requests with an assignment less or more |
| candidates | Does an incumbent only improve, over versions, expiries and deaths? (`UpgradeNeverRegresses`) | a baseline and 4 upgrades: better, worse, late, uncertified |
| agent | Is a plan earned whatever the planner does (`PlanIsEarned`), and complete with the heuristic one (`HeuristicPlanIsComplete`)? | 2 flights, 2 members, every choice of ratings and verdicts, one spare model; 10 steps, one more than the 9 calls that its work can take (with 9 the property fails) |

`OutcomeIsLegal` and `CertificateIsEarned` state their limits anew and do not ask
the operators of `CrewLegality`, which they are meant to check.

Bounds, by name: `MaxTime`, `MaxTicks`, `LastDay`, `LastHour` (clocks),
`MaxKeys`, `FreeRoles` (the roles under which commands that need none are sent),
`MaxVersion`, `MaxTransitions`, `LastVersion` (how many transitions there are),
`MaxEvents`, `MaxForeign`, `MaxJournal` (how many messages), `MaxFaults`,
`MaxFailures`, `MaxFailedCalls` (how often something fails), `MaxDrift` (how far
bookings stray past empty and full, as the capacity manager has neither floor
nor ceiling), `StepLimit` (which is the code's `max_steps`), and the sizes of the sets.
Symmetry is used where values are interchangeable and no liveness property is
checked: callers, actors, legal candidates, holds and deployments of the store.

`NamedPlanIsValidated` is stated for recoveries that were never deployed,
because a compensation can turn a version back (see below), and then an
old request may match again.

Every property has a mutant in `PROJECT.json`: an operator beside the original
definition, marked `Mutant`, with a plausible slip in the code (a missing check,
another comparison, a lock not taken) under which the property fails in its own run.

### Fairness

`ResourceHolds!FairSpec`: time passes, and the registry keeps being called;
the registry has no timer, so without calls an expired hold stays in the table
for ever, which harms nobody who does not call.

`DurableRecovery!FairSpec`: a server executes the statement it has reached
(weak fairness of `Commit`, which waits for nobody), and PostgreSQL queues those
who wait for a lock, so that each gets its turn (strong fairness of `Reserve`
and `Lock` with their alternative outcomes).  Nothing says that a caller sends,
repeats or gives up, or that anything crashes.

`PublicationFairness`: the loops of publishers and consumers go on with the step they
are at, and back-offs end; all weak.  Nothing is assumed of appending, faults,
rebalances or foreign messages.  Faults are finite in number (`MaxFaults`), which
stands for a broker and a database that come back.
`EveryEventIsApplied` excepts a row whose claimant has died (`Orphaned`): its claim
never expires.

`DispatchFairness`: the same for dispatchers and the delays after a failed send.

### Disagreements between code and documentation

The runs that end in a violation show these; `PROJECT.json` quotes the lines.

1. The digest of a command leaves out candidate, actor and evidence: a key
   reused for such a command is answered with the other command's receipt.
2. A late answer after a compensation overwrites `requires_new_recovery`.
3. A plan selected after validation and approval of another one can be deployed
   (simulated) under these.
4. A deployment command whose dispatcher died between claim and mark can never
   be claimed again.
5. A planner may commit one crew member to two flights of a run.
6. A joint plan is deployable although a passenger whom it rebooks has no seat in his
   cabin: of several actions on one flight only the last is looked at.

Met while modelling, and modelled as the code has it, without a run of their own:

* A repeated durable command whose first attempt committed is refused as stale before
  its receipt is looked up (`core/durable_recovery_workflow.py:55`).
* `compensate_deployment` writes back a version it has read before
  (`deployment/recovery_api.py:647`), so versions may fall.
* A crash between the registry's compensation and the update of the recovery
  (`deployment/recovery_api.py:642-647`) leaves the recovery shown as deployed for good;
  `CompensationIsShown` excepts this case by name, and no other.
* Outbox claims do not expire either (`state/postgres_event_store.py:119`).
* In the durable deployment, an acknowledgement before `mark_published` is refused,
  and a repeated one that names its old version is refused before it is recognised.
  A refusal or time-out without any acknowledgement gives `failed`, where
  `architecture.md:132` says partial.
* A saga has no way to abort before validation and no time-out in `partial`; a
  reservation without an identifier is noticed by `begin_commit` only, and there
  is no way on from there.
* `rollback` and `active` of the governance ignore effective periods.
* The reconciler takes a request for done if any completion of that member has a
  later timestamp (`state/event_store.py:290`), and reports a request as deferred
  after its events were appended (`:325`).
* The ingestion cursor moves backwards with an old record.  A half-open breaker
  lets every caller through, and a stale success closes it.
* The breaker counts without a lock (`integrations/adapters/base.py:105-111`): two failures
  may count as one, so that the circuit stays closed at its threshold, and a success between a
  failure's comparison and its writes leaves the circuit open with no failures.  A success
  between the two reads of `opened_at` in `allow` makes the subtraction raise a `TypeError`.
  So the property is not about the count; it says that no interleaving leaves a circuit that
  nobody can try again.
* `DeployablePlanIsJoint` speaks of rebooked passengers: those on the waiting list are in no
  action, so a plan may be deployable that leaves them behind.
* The candidate artifact of a certificate is compared with nothing
  (`rules/validation_service.py:93`, `:186-190`): a certificate verifies for the artifact that
  was sent, which need not describe the assignments that were judged.
* Certificates judge each assignment alone; `evaluate_upgrade` takes a candidate's word
  for being certified and does not verify the certificate.
* The local search after the greedy tier never changes anything.
* An agent whose language model is given up after a legal preview may stall: the heuristic
  planner insists on a pair whose member is committed elsewhere.  A flight that was
  escalated may be committed later.
* A message whose key is not UTF-8 makes the consumer fail again while it publishes it
  to the dead-letter topic (`state/msk_consumer.py:94`), so it ends at this message
  each time it is started.
* The scheduler's approval of a tier-3 suggestion may give a member two duties, and
  a second approval forgets the first (`deployment/recovery_api.py:378`).

## 4. What is proved

The theorems hold for every value of the constants that satisfies the named
assumptions, with any number of callers, recoveries and resources.

**ResourceHolds_proofs** (`TtlAssumption`, `NoneAssumption`): `TypeCorrect`,
`IndexAlwaysExact`, `MutualExclusion`, `ConflictAlwaysReal`.
`NoDoubleBooking` alone is not inductive: releasing a hold pops index entries
by resource, which is only right if they point to that hold.  `IndexExact` says
so and is inductive with the type invariant; the rest follows from it.

**DurableRecovery_proofs** (`NoneAssumption`, `BoundAssumption`,
`FreeRolesAssumption`): `Refinement` (the service
implements `RecoveryLifecycle` under the mapping `recovery <- snapshot`),
`NoStaleWinner`, `EvidenceAlwaysHolds`, `TypeCorrect`, `TablesAgree`, `OneMutationPerKey`,
`FrozenForEver`.  The inductive invariant `IInv` has
four parts: `Shape`; `Coherent` (row, stream and snapshot are at one version,
and the stage determines it); `Pending` (a command in flight, if the stream is
still at its version, is lawful for the stored snapshot); `OneWriter` (a locked
command has the current version, and is alone).  `Pending` is the reason why checking
before the transaction is enough: a commit raises the version above whatever others
expect, and so makes them harmless.  On top of it, one invariant for each further
theorem: `Documented` (what a snapshot has collected at its stage) for the evidence;
`Logged` (each recovery's log has no gap, ends with the stored snapshot and is queued for
publication) for `TablesAgree`, which is why the upsert whose row count nobody looks at is
never skipped; `KeysAreOwned` and `Receipted` for the keys: a transaction that has reserved
a key is alone with it and finds no receipt under it, and every event has one.
`FrozenForEver` is the action property `ExpiredPlanIsFrozen` for any number of callers:
with no command in flight, an expired selection lets none through again.

**DeploymentCommands_proofs** (`CommandsAssumption`, `BoundAssumption`):
`TypeCorrect`, `CompleteOnlyWhenAcked`,
`VerdictsHold`, `OneWinner`, `NeverResent`.  A verdict is either recomputed or
survives the change of one command; `Truthful` collects what each verdict claims
so that both cases can be proved alike.  `SeenIsPast` (nobody has read a version
that does not exist yet) carries `OneWinner`.

**RecoveryStore_proofs** (`StoreAssumption`): `TypeCorrect`, `DisjointPlans`,
`SupersededHoldNothing`, `ShownCompensations`, `NamedPlan`.  The registry's
invariants are not proved again: every step of the store makes at most one
call of the registry, supersedes or restarts (`CallsRegistry`), and the lemmas of
`ResourceHolds_proofs` are instantiated for it (`RegistryKept`).  Added to that are:
a hold covers what its candidate needs (`HoldsAreAsked`), holders exist and are
not superseded (`HoldersAreActive`), recoveries and deployments point at each
other (`DeploymentsAreOwned`), and a running compensation has a deployment
(`PendingAreDeployed`).  `ShownCompensations` supposes nothing about restarts: the one
exception is a request that a crash has interrupted.  Nearly all steps only move one recovery on
(`Moves`, `StepsMove`), so that each part is proved once for these and once each
for creation, deployment and the steps that change no recovery.  `NamedPlan`
needs a second invariant, `ReadsAreCurrent`: a request that carries the current
version has read the current selection.

**EventConsumer_proofs** (`OutboxAssumption`): `TypeCorrect`,
`PublishedMeansDelivered`, `RowsAreHandledOnce`, `NothingEverSkipped`,
`DeliveredOnce` (the publication implements `ExactlyOnce`).  The invariant has two
parts.  `OutboxInv`: an acknowledgement that a worker holds is for the head of its
batch, and that event is in the topic (`AcknowledgedIsInTopic`), and no batch names a
row twice (`BatchesAreDistinct`), without which finishing one row would leave it in
the batch unclaimed.  `ConsumerInv`: what lies before a consumer's position has been
dealt with, and what it is about to commit too (`PassedIsHandled`), which is why two
consumers of one partition, after a rebalance, cannot skip anything for each other;
and what the projection contains is in the table of consumed events
(`ViewIsConsumed`), which the refinement needs.  The consumers see of the outbox only
that its tables grow, so each of its steps is proved once for itself and
once, as growth, for them.

**Coordination_proofs** has a section for each component:

* The saga (`SagaAssumption`), `MovesAreAgreed`.  A stale transition is
  ignored, so it is enough that each lawful one keeps the answers and the
  status in step: before the commit nobody has been asked (`AnswersAreKept`), the
  reservations and the certificate that the commit began with still stand
  (`CommitIsSound`), and a refusal is never forgotten (`RefusalsAreFinal`).
* The durable deployment (`DispatchAssumption`), `VerdictsAreDerived`.  The
  verdict is a function of the statuses (`VerdictFits`), and an acknowledged command
  never changes again, so `complete` is final; that is what makes the
  reader's two snapshots agree (`ReportHolds`).
* Rules packages (`GovernanceAssumption`), `RulesAreGoverned`.  `Governed` says of every
  package, in force or not, that its approvals are of two people who did not submit it
  and that whoever is past approval has both; so a rollback to any earlier package is
  covered as well.
* Ingestion (`IntegrationAssumption`), `NewestRecordWins`.  The newest time the code remembers
  bounds the accepted records of the aggregate and is reached by one of them
  (`LatestIsNewest`): a record that is marked out of order has a newer one before it, and one
  that is not becomes the newest.
* The breaker, `OpenCircuitsCanBeTried`, for any number of callers.  The order of the writes
  carries it: `success` forgets the time before it closes, so between the two the circuit has
  one caller who is about to close it, and `failure` opens before it writes the time, so there
  is one who is about to write it.  `CallersStep` says what a step of one caller leaves of the
  others.
* Candidates (`CandidateAssumption`), `UpgradesAreMonotone`.  An incumbent was solved on no
  version that is yet to come (`CandidateInv`), so what is adopted next is compared with
  every earlier one through the last.
* The event stream (`StreamAssumption`), `ReplayIsView`.  Within the stream of one member in
  one partition the sequences grow with the places (`RightLog`), whatever the timestamps;
  only a member's own events change what the view has of it; so the sorted replay applies
  these in the order in which they were appended (`ViewKept`).  A batch of completions keeps
  this one completion after the other, and the file is read back event by event, by induction.

**Solving_proofs** likewise:

* The agent (`AgentAssumption`), `PlansAreEarned`: what the tools have judged and committed
  is enough, no planner is asked for anything.  `HeuristicPlansFinish` is about the heuristic
  planner alone and supposes `StepLimit` greater than
  `1 + 2 * |Cases| + |Cases| * |Reserve|`, which are the calls there can be (the picture, a list
  and a settlement for each flight, a verdict for each pair); the turn beyond them is the one in
  which the planner finds nothing left to do.  The code has `max_steps = 40`
  (`agents/recovery_agent.py:124`), which is enough for three flights and ten members, say; past that
  the loop may end early, and does so with the status that says so.  `NextIsReady` is the invariant:
  a flight with a legal option is the one the planner looks at next, so nobody else can
  take the option first.
* Passengers (`PassengerAssumption`), `DeployablePlansAreJoint`: the action that
  `passenger_by_flight` keeps is the last one that names the flight, and only its seat is known.
* The tiers (`SolveAssumption`: the flights are sorted by departure, as in
  `solvers/tier1.py:111`), `OutcomesAreLegal` and `IncumbentsAreKept`.  `RightPath` and
  `RightRoster` say that each duty can be flown and no flight is flown twice;
  every insertion, the stable sort by departure and every column the optimizer may select
  keep them.  `SolveInv` says by phase what is being built, kept and answered.  The limits
  of a duty are sums over its legs, so these must be shown not to depend on the order of
  summation.
* Certificates (`CertificateAssumption`: a duty has a leg, as
  `rules/validation_service.py:49` demands), `CertificatesAreEarned`: no finding on an assignment
  means that each of the limits holds, which the property states anew.  What is shown with a
  certificate that verifies is what was signed; of the artifact nothing else is known.

**FoldLemmas** is what these need of finite sets.  The library's induction theorems take a
predicate as a parameter, which the provers cannot instantiate; here induction over numbers
(`NaturalInduction`) and over finite sets (`SubsetInduction`) are facts about the *set*
of those that satisfy the predicate, proved from the least element of what is left.  With
them a fold, which the community modules define by CHOOSE, is shown to exist
(`FoldsExist`), and two folds that agree step by step to be equal (`FoldsAgree`).

So every safety property of the passing runs is a theorem.  Only model-checked are the liveness
properties `EveryHoldEnds`, `EveryCommandEnds` and
`EveryEventIsApplied`: the prover does neither liveness under fairness nor ENABLED.
RECURSIVE operators are out of its reach too, so recursion is written with recursive
functions or folds everywhere.

## 5. What is left out, and why

* A refused request changes nothing and is not a step, unless the refusal itself
  tells the caller something a property is about (`RepeatRefused`,
  `SelectRefused`, `AcquireRefused`).
* `DurableRecovery`: one tenant, as all rows and keys are scoped by tenant; the
  solver's and validator's results are inputs; `replay` only reads.
* A decision on a superseded recovery makes it active again: `decide` does not
  look at that status.  The model does the same, and `SupersededHoldsNothing`
  speaks of a recovery as long as it counts as superseded.
* `DeploymentCommands`: what the carrier does with a command that timed out.
* `RecoveryStore`: the items of the suggestion queue (a decision on one is the
  version step, and perhaps a new candidate); torn writes of the state file;
  the wrappers for single commands of a deployment, which find nothing to do on
  one that was acknowledged in full.
* `EventConsumer`: one partition; of the read models the deployment's query is in
  `DeploymentDispatch`, the others format rows.
* `TieredSolving`: objective values (any feasible selection stands for the solver's),
  the older master problem in `ColumnGenerationSolver`, which nothing calls, and the
  demonstration queue of `tier3_api.py`.
* `PassengerRecovery`: the passenger tiers, compensation amounts and the passenger
  event log compute or record for one passenger and feed nothing else; the
  predictive pre-staging is a numeric score (its branch for less than ten hours lies behind
  the one for less than twelve and is never taken).
* `Integration`: the mapping of each domain's fields, health reports, and the signature
  of a publication.
* `RecoveryAgent`: trace and narration.
* Not modelled at all: canonical records and fixtures (no operation), token checks
  (stateless; roles enter `DurableRecovery` as `RolesOf`), start-up checks and release
  evidence, the replay and chaos harnesses, the dashboard.

## 6. Plan

To prove next: no safety property of the runs is left.  Further theorems worth having are
of another kind: action properties for the components that have invariants only (an accepted
saga answer, an archived artifact and a stored event are never changed), and abstract
specifications for the deployment's life cycle and the rules packages that their modules refine.

To model: `SchedulerQueue` (suggestions, edits and approvals of `recovery_api` and
`tier3_api`, where a crew may be given two assignments) and `StateFile` (writers of
the JSON file with and without the lock).
