SPECIFICATION FairSpec
CONSTANTS
  d1 = d1
  d2 = d2
  l1 = l1
  l2 = l2
  Caller = {c1, c2}
  Link = {l1, l2}
  Delivery = {d1, d2}
  LinkOf <- OnceEach
  Disconnect = {x}
  MaxTokens = 4
  Faults = {"cut", "revoke", "age"}
INVARIANTS  InStep DisconnectHolds
PROPERTY ResolveEnds
CHECK_DEADLOCK FALSE
