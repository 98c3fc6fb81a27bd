CONSTANTS
  Interval <- IntervalC
  MaxInterval = 3
  Speeds <- SpeedsC
  Slow = 1
  ItemTime <- ItemTimeC
  Weights = {1, 2}
SPECIFICATION FairFollowersSpec
INVARIANT WeighedOnce
PROPERTY Recovers
