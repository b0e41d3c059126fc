\* Both runtimes: streams that run from await to await, and streams that interleave.
SPECIFICATION Spec
CONSTANTS
  Stream = {"s1", "s2"}
  MaxGen = 2
  MaxStarts = 3
  Flavours = {TRUE, FALSE}
INVARIANTS SingleFlight TurnsConverge
PROPERTIES QueryRests
