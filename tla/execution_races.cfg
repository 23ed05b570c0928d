SPECIFICATION FairSpec
CONSTANTS
  Request = {g1, g2, u1}
  Gated = {g1, g2}
  Keyed = {g1, u1}
  Cancellable = {g1}
  Early = {u1}
  MaxAttempts = 2
  MaxCrashes = 2
  Faults = {"timeout", "storage"}
CHECK_DEADLOCK FALSE
 
PROPERTIES PromiseKept 
