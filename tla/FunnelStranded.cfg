\* A subscriber that panics inside track_subscription.
SPECIFICATION Spec
CONSTANTS
  Thread = {"kernel", "producer"}
  KernelThread = "kernel"
  Depth = 1
  Field = {"subscriptions"}
  MaxSeq = 2
  MaxGuards = 2
  MaxKeyed = 1
INVARIANTS GaugesFall
