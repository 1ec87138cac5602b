SPECIFICATION FairSpec
CONSTANTS
  Files <- MCFiles
  CopyOrder <- MCCopyOrder
  RestartOrder <- MCRestartOrder
  Backups <- MCBackups
  Minute <- MCMinute
  Had <- MCHad
  Kinds = {"config", "both", "selective", "full with auth", "defaults"}
  Handlers = {h1, h2}
  Cleaners = {c1}
  MaxOps = 2
  MaxTroubles = 2
INVARIANT ReappliedWhenQuiet
PROPERTIES SuccessMeansRestored FullRestoreEnds
CHECK_DEADLOCK FALSE
