SPECIFICATION Spec
CONSTANTS
  Packages <- MCPackages
  Signers = {"primary", "second"}
  KeyIntervals <- MCIntervals
  EcuTarget = "BMS-A"
  HardwareProfile = "PACK-192S"
  InitialVersion = 1
  ContextVersions = {0, 2}
  CallerReadsManager = TRUE
  MaxTime = 2
INVARIANTS
  NoUnauthorizedRollback
  ActivatedAsVerified
PROPERTIES
  NoUntrustedActivation
  RevokedStaysRevoked
