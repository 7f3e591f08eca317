SPECIFICATION FairSpec
CONSTANTS
  b1 = b1
  b2 = b2
  b3 = b3
  MAX_ID = 2
  Room = {1, 2}
  roomOf <- MCRoomOf
  startsAt <- MCStartsAt
  endsAt <- MCEndsAt
  rowOrder <- MCRowOrder
  TURNAROUND = 1
  HOLD_TTL = 1
  CHECKOUT_REARM = 3
  MAX_HOLD_REARMS = 1
  RETRY_ATTEMPTS = 1
  BATCH_SIZE = 1
  MAX_HOLD_LIFETIME = 2
  Booking = {b1, b2}
  Session = {s1, s2}
  Equipment = {1}
  quantity <- MCFleetQuantity
  unitsOwned <- FleetUnits
  MAX_QUANTITY = 11
  BufferPcts = {0, 10}
  HoldsEnd = 1
  CallsEnd = 4
  MaxNow = 5
INVARIANTS EquipmentNeverOversold RearmWithinLifetime
PROPERTIES LifecycleImplemented HoldReleased
CHECK_DEADLOCK FALSE
