SPECIFICATION FairSpec
CONSTANTS
  b1 = b1
  b2 = b2
  b3 = b3
  MAX_ID = 2
  Room = {1, 2}
  roomOf <- MCRoomOf
  startsAt <- MCStartsAt
  endsAt <- MCEndsAt
  rowOrder <- MCRowOrder
  TURNAROUND = 1
  HOLD_TTL = 1
  CHECKOUT_REARM = 2
  MAX_HOLD_REARMS = 1
  RETRY_ATTEMPTS = 2
  BATCH_SIZE = 1
  MAX_HOLD_LIFETIME = 3
  Booking = {b1, b2, b3}
  Session = {}
  Equipment = {1, 2}
  quantity <- MCContentionQuantity
  unitsOwned <- ContentionUnits
  MAX_QUANTITY = 1
  BufferPcts = {0}
  HoldsEnd = 3
  CallsEnd = 3
  MaxNow = 5
INVARIANTS TypeOK NoRoomOverlap NoDeadlock
PROPERTIES RoomRefusalJustified EquipmentRefusalJustified HoldReleased
CHECK_DEADLOCK FALSE
