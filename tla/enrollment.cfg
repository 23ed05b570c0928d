SPECIFICATION FairSpec
CONSTANTS
  Machine = {m1, m2}
  Token = {t1, t2}
  Call = {c1, c2}
  MaxKeys = 2
  MaxResent = 1
  MaxFaults = 1
  Faults = {"storage", "crash", "age", "registry", "certificate"}
INVARIANTS EnrolledOnce Recognised
PROPERTY AnswerComes
CHECK_DEADLOCK FALSE
