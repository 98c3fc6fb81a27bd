CONSTANTS
  Config <- MCConfig
  PerAxis = FALSE
  EventDriven = {"coder/state"}
  Vibration = {"vibration/main"}
  BufferLimit = 2
  Readings <- MCReadings
  SentinelValue = "sentinel"
  Drops = TRUE
  DropLengths = {1}
  DropGaps = {0, 3}
  MaxLate = 2
SPECIFICATION FairPublishingSpec
INVARIANTS
  LastIsKept
  ShownInTime
PROPERTY
  TopicsSettle
