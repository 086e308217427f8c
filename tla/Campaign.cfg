SPECIFICATION FairSpec
CONSTANTS
  CaseCount = 3
  RootCause <- DefaultRootCause
  RetestOf <- DefaultRetestOf
  Expected <- DefaultExpected
  Roots = {"bypass"}
  NoRoot = "no root"
  MaxVersion = 2
  AllowRevert = FALSE
  CrashTearsFiles = TRUE
  Limits = {1, 3}
  MaxCrashes = 2
INVARIANTS
  EvidenceIsCampaignPrefix
  CompletedIsRecorded
  EvidenceReloads
  RestartPreservesFindings
  ClosedOnlyByNewerRetest
  CleanExitIsEvidenced
  RestoreIsReplay
PROPERTIES
  CompletesUnlessTorn
  ImplementsLedger
  OnlyForeignEvidenceIsArchived
