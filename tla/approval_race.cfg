SPECIFICATION FairSpec
CONSTANTS
  Ticket = {t1}
  Principal = {holder, deputy}
  Submission = {s1, s2}
  Sweeper = {w1}
  NoPrincipal = NoPrincipal
  NoTicket = NoTicket
  Holders = {holder}
  Admins = {}
  Restricted = {t1}
  Signed = {t1}
  Timed = {t1}
  BatchLimit = 1
  Faults = {"timeout", "storage", "crash"}
CHECK_DEADLOCK FALSE
INVARIANTS RecordsAgree AuthorityTraced
PROPERTIES PromiseKept OverdueSettled
