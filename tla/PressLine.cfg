CONSTANTS
  N = 2
  Class = {"JobChangeover", "WebBreak", "UnplannedStop", "ShiftChange", "MaterialSplice", "MicroStop", "BearingWear"}
  Priority <- MCPriority
  MinDuration = 2
  MaxDuration = 6
  Horizon = 4
  MaxAdded = 0
  Watching = {"MaterialSplice"}
  Length <- MCLength
  SetupTimer = {1, 2}
  FaultTimer = {1, 2}
  Targets = {2, 3}
SPECIFICATION FairPressSpec
INVARIANTS
  IndicatorsCleared
  HandoverIsIdle
  StoppedUnlessRunning
  SpeedFollowsTarget
PROPERTY BreakRestarts
