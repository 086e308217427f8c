SPECIFICATION FairSpec
CONSTANTS
  CaseCount = 3
  RootCause <- ShortRootCause
  RetestOf <- ShortRetestOf
  Expected <- ShortExpected
  Roots = {"bypass"}
  NoRoot = "no root"
  MaxVersion = 1
  AllowRevert = FALSE
  CrashTearsFiles = TRUE
  Limits = {3}
  MaxCrashes = 1
PROPERTY CampaignCompletes
