CONSTANTS
  relay = relay
  node = node
  Uuids = {u1, u2}
  Items = {v1, v2}
  Owner = owner
  Peers = {relay, node}
  Relays = {relay}
  From <- MCFrom
  MaxMissed = 2
  MaxOps = 2
  Announced = {u1}
  FirstItem = v1
  MaxLosses = 1

SPECIFICATION FairSpec

INVARIANTS
  
  HistorySound
  DeltaLeadsHome

PROPERTIES
  Converges
  GhostsExpire

CHECK_DEADLOCK FALSE
