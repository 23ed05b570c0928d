SPECIFICATION InstanceSpec
CONSTANTS
  Steps = 3
  Gates = {2}
  Undoable = {1}
  Lenient = {1}
  Runner = {r1, r2, r3}
  Caller = {c1, c2}
  Boot = Boot
  NoTask = NoTask
  Serial = TRUE
  Failures = {"storage", "timeout"}
  MaxCrashes = 1
  MaxResumes = 1
SYMMETRY TaskSymmetry
CHECK_DEADLOCK FALSE
INVARIANTS StepsInOrder CompensatedOnFailure
PROPERTY TerminalFinal
