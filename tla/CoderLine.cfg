CONSTANTS
  K = 2
  Full = 4
  Low = 3
  RefillAt = 2
  Empty = 1
  Moves = {"Setup", "Running", "Idle", "Fault"}
  InitialPress = {"Idle", "Off"}
  MaxWait = 2
SPECIFICATION CoderSpec
INVARIANTS
  CartridgeKept
  InjectionTruthful
