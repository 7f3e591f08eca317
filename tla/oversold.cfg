SPECIFICATION Spec
CONSTANTS
  b1 = b1
  b2 = b2
  b3 = b3
  MAX_ID = 2
  Room = {1, 2}
  roomOf <- MCRoomOf
  startsAt <- MCStartsAt
  endsAt <- MCEndsAt
  rowOrder <- MCRowOrder
  TURNAROUND = 1
  HOLD_TTL = 1
  CHECKOUT_REARM = 2
  MAX_HOLD_REARMS = 1
  RETRY_ATTEMPTS = 1
  BATCH_SIZE = 1
  MAX_HOLD_LIFETIME = 3
  Booking = {b1, b2}
  Session = {s1}
  Equipment = {1, 2}
  quantity <- MCContentionQuantity
  unitsOwned <- ContentionUnits
  MAX_QUANTITY = 1
  BufferPcts = {0}
  HoldsEnd = 4
  CallsEnd = 4
  MaxNow = 4
INVARIANT EquipmentCeilingHolds
CHECK_DEADLOCK FALSE
