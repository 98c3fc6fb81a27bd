CONSTANTS
  Modbus = 1
  Opcua = 1
  Mqtt = 2
  MaxAttempts = 4
  MaxSignals = 2
SPECIFICATION FairSpec
INVARIANTS
  CalmShutdown
PROPERTIES
  NobodyJoins
  ShutdownCompletes
  StartsEnd
CHECK_DEADLOCK FALSE
