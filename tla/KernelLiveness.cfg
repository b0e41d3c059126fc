\* Quits of init, of reduce and of producers, render errors, a dropped kernel,
\* and subscriptions over the quiescence barrier, under the fairness.
SPECIFICATION Spec
CONSTANTS
  MaxRuns = 6
  Ceiling = 9
  CommandIds = {"k"}
  SubIds = {"a", "b"}
  NoId = "none"
  Scopes <- MCScopes
  DataCapacity = 1
  MaxSends = 2
  BatchCap = 2
  SubScope <- MCSubScope
  Programs <- LivenessPrograms
INVARIANTS TerminalPostcondition
PROPERTIES QuitTakesEffect TerminationSettles NothingForgotten
