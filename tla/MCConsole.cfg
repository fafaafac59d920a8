CONSTANTS
  Requests = {r1, r2}
  NoTask = NoTask
  Ghost = Ghost
  Stages <- SomeStages
  MaxLoads = 2
SPECIFICATION Spec
INVARIANTS
  ConsoleInv
CHECK_DEADLOCK FALSE
PROPERTIES
  ButtonReturns
  EndIsShown
