CONSTANTS
  CaseOrder <- MCCases
  Reserve = {"C1", "C2"}
  Ratings <- MCRatings
  FallbackModels = 1
  StepLimit = 10
SPECIFICATION AgentSpec
INVARIANT CrewWorksOneFlight
CHECK_DEADLOCK FALSE
