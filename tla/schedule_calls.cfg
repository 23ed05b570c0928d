SPECIFICATION FairSpec
CONSTANTS
  Schedule = {s1}
  Ticker = {t1, t2}
  MaxRuns = 2
  Faults = {"crash", "storage", "start"}
  MaxFaults = 1
  MaxFires = 2
  MaxCalls = 1
CHECK_DEADLOCK FALSE
INVARIANTS OneHolder RunsAccounted StopHolds
PROPERTY FireServed
