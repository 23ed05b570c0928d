SPECIFICATION FairAgentSpec
CONSTANTS
  MaxBatches = 3
  Gated = {1, 2}
  Browser = {2, 3}
  Slots = 2
  Desk = {d1, d2}
  MaxGrants = 1
  MaxCalls = 1
  MaxArrivals = 1
  MaxFaults = 1
CHECK_DEADLOCK FALSE
INVARIANT OneLoop
PROPERTIES ToldAsRecorded CancelHolds BrowserPauseEnds GatedPromise
