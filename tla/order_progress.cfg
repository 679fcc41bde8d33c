CONSTANTS
  o1 = o1
  o2 = o2
  t1 = t1
  t2 = t2
  n1 = n1
  n2 = n2
  Nodes = {n1, n2}
  Makers = {o1, o2}
  Takers = {t1}
  Ask <- MCAsk
  Request <- MCRequest
  Pairs <- MCPairs
  Owners <- MCOwners
  MinVol = 1
  MaxVol = 4
  NewAsks <- MCNewAsks
  Balances = {0, 2}
  Agendas <- MCPairAgendas
  MaxEvents = 1

SPECIFICATION FairSpec

PROPERTIES
  ReservationEnds
  TakerOrderEnds
  

CHECK_DEADLOCK FALSE
