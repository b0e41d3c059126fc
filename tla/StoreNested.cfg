\* One leaf under two timeouts: which of them makes a message when a poll is late.
SPECIFICATION Spec
CONSTANTS
  Fuel = 16
  Programs <- NestedPrograms
  Durations = {0, 1, 2}
  MaxTime = 4
  MaxUpdates = 4
INVARIANT EarlierTimeoutEmits
CHECK_DEADLOCK FALSE
