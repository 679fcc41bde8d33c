CONSTANTS
  o1 = o1
  o2 = o2
  t1 = t1
  t2 = t2
  n1 = n1
  n2 = n2
  Nodes = {n1, n2}
  Makers = {o1, o2}
  Takers = {t1, t2}
  Ask <- MCWideAsk
  Request <- MCRequest
  Pairs <- MCPairs
  Owners <- MCOwners
  MinVol = 1
  MaxVol = 4
  NewAsks <- MCNewAsks
  Balances = {0, 2}
  Agendas <- MCAgendas
  MaxEvents = 0

SPECIFICATION Spec

INVARIANTS
  BookNotOverstated

CHECK_DEADLOCK FALSE
