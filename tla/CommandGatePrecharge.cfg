SPECIFICATION Spec
CONSTANTS
  Sources = {"control", "sensor", "unknown"}
  Permissions <- MCPermissions
  MaxMessageAge = 1
  Controllers = {"k1", "k2"}
  MaxCounter = 2
  MaxTime = 2
  MaxExecuted = 3
  Requests <- MCRequests
PROPERTY EnableNeedsPrecharge
