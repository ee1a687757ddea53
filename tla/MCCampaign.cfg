CONSTANTS
  Paths = {".", "www", "nowhere"}
  Directories = {".", "www"}
  Scenarios <- MCScenarios
  Policies <- MCPolicies
  Replicas = 1
  ByHand <- MCByHand
  MaxByHand = 1
  MaxRuns = 2
SPECIFICATION FairSpec
INVARIANTS
  WorkersFindBuffer
  RowsMeasureOwnServer
  SummaryOfOneRun
PROPERTIES
  CampaignEnds
CHECK_DEADLOCK FALSE
