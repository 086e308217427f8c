SPECIFICATION Spec
CONSTANTS
  CaseCount = 3
  RootCause <- ShortRootCause
  RetestOf <- ShortRetestOf
  Expected <- ShortExpected
  Roots = {"bypass"}
  NoRoot = "no root"
  MaxVersion = 2
  AllowRevert = TRUE
  CrashTearsFiles = FALSE
  Limits = {3}
  MaxCrashes = 1
INVARIANT CompletedIsRecorded
