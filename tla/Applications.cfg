\* Tests of five small applications: every order of the store's operations.
\* Two whole applications: every order of keys, answers and messages in flight.
SPECIFICATION ApplicationsSpec
CONSTANTS
  Fuel = 16
  Programs <- StorePrograms
  Durations = {0, 1, 2}
  MaxTime = 4
  MaxUpdates = 3
  Seeds = 1
  MaxTasks = 2
  MaxRuns = 2
  Listed = 2
  MaxList = 3
  MaxKeys = 3
INVARIANTS TimeoutContract OutputKept SlotDecisions PassIsExhaustive RetryContract
INVARIANTS InstancesAccounted BoardCoherent
PROPERTIES LossReported PanelFollowsSelection
CHECK_DEADLOCK FALSE
