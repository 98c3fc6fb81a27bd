CONSTANTS
  Requested = {"r1", "r2"}
  Interval = 2
  MaxLength = 2
  Stale = TRUE
  MaxEvents = 2
  MaxWrites = 2
SPECIFICATION FairSpec
INVARIANTS
  NoEcho
  SentinelIsBad
PROPERTY
  Settles
