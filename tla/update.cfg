SPECIFICATION FairUpdateSpec
CONSTANTS
  Db = db
  Subtree = {documents}
  UpdateKey = UpdateKey
  Key = {UpdateKey}
  NoKey = NoKey
  File = {f1, f2}
  Deployed = {"old"}
  MaxCount = 2
  MaxBackups = 2
  MaxVersion = 2
  MaxRestores = 0
  MaxCrashes = 2
  MaxStages = 2
  MaxApplies = 2
  Faults = {"storage", "timeout", "disk", "invalid", "drain", "stop", "cancel"}
CHECK_DEADLOCK FALSE
 
PROPERTIES  ApplyReturns
