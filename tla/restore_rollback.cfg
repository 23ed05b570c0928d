SPECIFICATION RecoverySpec
CONSTANTS
  Db = db
  Subtree = {documents}
  Deployed = {"head"}
  Key = {}
  NoKey = NoKey
  MaxCount = 2
  MaxBackups = 1
  MaxVersion = 1
  MaxRestores = 1
  MaxCrashes = 0
  Faults = {"disk"}
CHECK_DEADLOCK FALSE
PROPERTY RollbackRestores
