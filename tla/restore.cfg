SPECIFICATION FairRecoverySpec
CONSTANTS
  Db = db
  Subtree = {documents}
  Deployed = {"head"}
  Key = {}
  NoKey = NoKey
  MaxCount = 2
  MaxBackups = 3
  MaxVersion = 2
  MaxRestores = 2
  MaxCrashes = 1
  Faults = {"storage", "timeout", "aged", "delete", "disk", "invalid", "drain", "stop", "discard"}
CHECK_DEADLOCK FALSE
 
PROPERTIES OutcomeIsWhole KeepsABackup SweepSettles
