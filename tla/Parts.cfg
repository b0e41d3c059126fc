\* Gauges: re-entry, panics and subscribers that come and go, over two threads.
\* A counter that three threads operate on.  Two connections of a WebSocket.
\* A timer over three intervals.
SPECIFICATION PartsSpec
CONSTANTS
  Thread = {"kernel", "producer"}
  KernelThread = "kernel"
  Depth = 2
  Field = {"subscriptions"}
  MaxSeq = 3
  MaxGuards = 2
  MaxKeyed = 1
  Worker = {"w1", "w2", "w3"}
  Top = 3
  MaxReserved = 4
  MaxConnections = 2
  MaxFrames = 2
  MaxCommands = 2
  LaneCapacity = 2
  Interval = 3
  Horizon = 10
INVARIANTS DrainCurrent GuardsCounted SenderReachesChat CadenceKept
PROPERTIES FeedSpec FunnelReopens OperationsAtomic CloseHeeded
