SPECIFICATION Spec
CONSTANTS
  MaxFailedAttempts = 2
  LockoutDuration = 2
  MaxTime = 4
INVARIANTS
  GuessesAreRateLimited
  ProtectedIsAuthorized
  ProcedureIsOrdered
PROPERTY LockoutNeverShortens
