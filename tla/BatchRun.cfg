CONSTANTS
  Formats = {"csv", "parquet"}
  BufferSize = 2
  EventDriven = {"count", "id", "coil"}
  Disconnectable = {"id"}
  Sentinel <- MCNumber
  Interval = 2
  Speeds = {2, 3}
  Rollover = 4
  MaxBeforeReset = 3
  Duration = 4
SPECIFICATION Spec
INVARIANTS
  RowsFaithful
  RolloversExplain
  WellUnlessFault
PROPERTY
  ImplementsLog
CHECK_DEADLOCK FALSE
