SPECIFICATION GatesSpec
CONSTANTS
  Sources = {"control", "sensor", "unknown"}
  Permissions <- MCPermissions
  MaxMessageAge = 1
  Controllers = {"k1", "k2"}
  MaxCounter = 2
  MaxTime = 2
  MaxExecuted = 3
  Requests <- MCRequests
  Clients = {"monitor-1", "operator-1"}
  RolePolicies <- MCRolePolicies
  ReadableRanges <- MCReadable
  WritableRanges <- MCWritable
  DeniedLimit = 2
  DeniedWindow = 1
  Sessions <- MCSessions
  ModbusRequests <- MCModbusRequests
  LastRequestTime = 3
  MaxDenials = 3
  Configurations <- MCConfigurations
  ApprovedHashes <- MCHashes
  CompatibleValues <- MCCompatible
  MaxAudited = 3
INVARIANTS
  DisorderNeedsOverlap
  DenialsAreCounted
  AccessStaysInRange
  RollbackBreaksTheChain
