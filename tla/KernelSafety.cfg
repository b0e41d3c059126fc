\* Keyed slots, nested teardowns with hooks, and subscriptions, by program;
\* a pending counter that saturates at two envelopes.
SPECIFICATION Spec
CONSTANTS
  MaxRuns = 8
  Ceiling = 2
  CommandIds = {"k"}
  SubIds = {"a", "b"}
  NoId = "none"
  Scopes <- MCScopes
  DataCapacity = 1
  MaxSends = 2
  BatchCap = 1
  SubScope <- MCSubScope
  Programs <- SafetyPrograms
INVARIANTS DeclaredOnce KeyedSlotUnique KeyedGauge PendingExact EntriesRetained TeardownRetracts CleanupOnce
PROPERTIES AdmissionBarrier DeliverySpec
