SPECIFICATION Spec
CONSTANTS
  CaseCount = 2
  RootCause <- RetestFirstRootCause
  RetestOf <- RetestFirstRetestOf
  Expected <- RetestFirstExpected
  Roots = {"bypass"}
  NoRoot = "no root"
  MaxVersion = 1
  AllowRevert = FALSE
  CrashTearsFiles = FALSE
  Limits = {1, 2}
  MaxCrashes = 0
INVARIANT ClosedOnlyByNewerRetest
