SPECIFICATION RelayFairSpec
CONSTANTS
  Client = {c1, c2}
  Room = {r1}
  RoomOf <- OneRoom
  SendCap = 1
  QueueCap = 2
  MaxMessage = 2
INVARIANTS InOrder
PROPERTIES WritersEnd
CHECK_DEADLOCK FALSE
