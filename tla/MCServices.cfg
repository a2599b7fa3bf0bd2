CONSTANTS
\* deployment commands: k1 a required crew assignment, k2 a required passenger ticket that
\* cannot be taken back, k3 optional
  Clients = {x1, x2}  Commands = {k1, k2, k3}  Required = {k1, k2}  Reversible = {k1, k3}
  MaxVersion = 10
\* durable commands
  Orders = {o1, o2, o3}  Mandatory = {o1, o2}  Dispatchers = {d1, d2}  Nobody = Nobody
  MaxFailures = 1
\* moves between partitions
  Coordinators = {q1, q2}  MaxTransitions = 9
\* rules packages
  Packages = {b1, b2}  People = {h1, h2, h3}  LastDay = 1
\* events in memory
  CrewIds = {c1}  Partitions = {p1, p2}  Payloads = {v1}  EventTimes = {0, 3}  MaxJournal = 3
\* ingestion and the circuit breaker
  RecordIds = {r1, r2, r3}  Digests = {g1, g2}  Aggregates = {a1, a2}  RecordTimes = {1, 2}
  AdapterCallers = {u1, u2, u3}  Threshold = 2  ResetTicks = 1  MaxTicks = 2  MaxFailedCalls = 3
\* passengers
  Flights = {"F1", "F2"}  Edges <- MCEdges  Travellers <- MCTravellers  Seats <- MCSeats
  MaxOptions = 3  MaxDrift = 1
\* solving
  CrewPool <- MCPool  AllLegs <- MCLegs
\* certificates
  CrewFile <- MCCrew  DutyFile <- MCDuties  EvidenceFile <- MCEvidence  Artifacts = {"plan", "another"}
\* candidates
  Drafts <- MCDrafts  LastVersion = 2  LastHour = 2
\* the recovery agent
  CaseOrder <- MCCases  Reserve = {"C1", "C2"}  Ratings <- MCRatings  FallbackModels = 1  StepLimit = 10
SPECIFICATION ServicesSpec
\* components stop: a deployment at its bound, a solve that is done, an agent that has stopped
CHECK_DEADLOCK FALSE
INVARIANTS
  CompleteMeansAllAcked
  VerdictHolds
  VerdictIsDerived
  MoveIsAgreed
  RulesInForceAreGoverned
  ReplayRebuildsView
  ProjectionEndsWithNewest
  OpenCircuitCanBeTried
  DeployablePlanIsJoint
  OutcomeIsLegal
  IncumbentIsKept
  CertificateIsEarned
  UpgradeNeverRegresses
  PlanIsEarned
  HeuristicPlanIsComplete
PROPERTIES
  OneWinnerPerVersion
  PublishedIsNotResent
