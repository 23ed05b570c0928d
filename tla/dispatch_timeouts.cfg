SPECIFICATION Spec
CONSTANTS
  Request = {r1, r2, r3}
  NoRequest = NoRequest
  CancelPoints <- BeforeCommit
  SlowHandlers = FALSE
  Faults = {"crash", "storage"}
CHECK_DEADLOCK FALSE
INVARIANTS SingleExecutor ReplayIsReal
PROPERTIES ClaimFollowsOwner PromiseKept
