SPECIFICATION Spec
CONSTANTS
  MaxFailedAttempts = 2
  LockoutDuration = 2
  MaxTime = 2
INVARIANT TransferEndsWithSession
