CONSTANTS
  N = 3
  Class = {"JobChangeover", "WebBreak", "DryerDrift", "InkExcursion", "RegistrationDrift", "ShiftChange", "MaterialSplice"}
  Priority <- MCPriority
  MinDuration = 4
  MaxDuration = 5
  Horizon = 5
  MaxAdded = 0
  Watching = {"MaterialSplice"}
SPECIFICATION OverridesSpec
INVARIANTS
  OverridesEnd
  DriftShows
