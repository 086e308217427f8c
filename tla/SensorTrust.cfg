SPECIFICATION Spec
CONSTANTS
  Sources = {"bms", "spare", "stranger"}
  Known = {"bms", "spare"}
  Permitted = {"bms", "spare"}
  MaxCounter = 2
  MaxSocRate = 5
  MaxVoltageRate = 50
  MaxTemperatureRate = 2
  SocTolerance = 0
  PositiveMeansCharging = TRUE
  LowSoc = 20
  HighSoc = 80
  LowVoltage = 650
  HighVoltage = 760
  Tolerance <- MCTolerance
  Readings <- MCReadings
  Callers = {"k1", "k2"}
  Setups <- MCSetups
  InitiallyRevoked = {"spare"}
  InitialSoc = 50
  MaxTime = 2
  MaxAccepted <- MCMaxAccepted
INVARIANTS
  TypeOK
  RepeatNeedsOverlap
  DriftIsBounded
  RevocationStops
PROPERTY ImplementsFreshStream
