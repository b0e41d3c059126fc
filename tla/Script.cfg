\* Grants, sends of both lanes, stops, exits and terminations, to the end of
\* each grant and of the script.
SPECIFICATION Spec
CONSTANTS
  Run = {r1, r2}
  NoRun = NoRun
  Capacity = 1
  BatchCap = 1
  MaxIntents <- MCIntents
  MaxGrants = 2
  Eager = r1
INVARIANTS GatedSends
PROPERTIES BookSpec SettleAppendsNothing GateWakes
CHECK_DEADLOCK FALSE
