CONSTANTS
  N = 3
  Class = {"BatchCycle", "CipCycle", "ColdChainBreak", "ChillerDoorAlarm", "FillWeightDrift", "SealIntegrityFailure", "OvenThermalExcursion"}
  Priority <- MCPriority
  MinDuration = 4
  MaxDuration = 7
  Horizon = 8
  MaxAdded = 0
  Watching = {}
  Durations <- MCDurations
  Interval = 2
  Earliest <- MCEarliest
  RoomMax = 8
  Low = 1
  High = 3
  DefrostPeriod = 5
  MaxDrift = 2
  Midnights = {3, 6}
SPECIFICATION FoodSpec
INVARIANTS
  MixerFollowsPlan
  OneIdPerBatch
  OverriddenWhileActive
  ColdRoomFollows
