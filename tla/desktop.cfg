SPECIFICATION Spec
CONSTANTS
  a1 = a1
  t1 = t1
  Agent = {a1}
  Tenant = {t1, t2}
  TenantOf <- OneDesktop
  Anyone = Anyone
  Command = {j, k}
  MaxSessions = 2
  MaxToggles = 1
  Faults = {"storage", "network"}
INVARIANTS GoneIsTold ToldIsDone 
SYMMETRY CommandSymmetry
CHECK_DEADLOCK FALSE
