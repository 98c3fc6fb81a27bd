CONSTANTS
  Intermittent = {"bearing", "sensor"}
  Transient = {"sensor"}
  Wear = "wear"
  ColdStart = "cold"
  ColdAfter = 1
SPECIFICATION Spec
INVARIANTS
  DegradationShows
