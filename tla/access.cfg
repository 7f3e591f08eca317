CONSTANTS
  admin = admin
  desk = desk
  platform = platform
  bob = bob
  BOB = BOB
  v1 = v1
  v2 = v2
  r1 = r1
  r2 = r2
  e1 = e1
  e2 = e2
  Person = {admin, desk, platform, bob, BOB}
  Lower <- MCLower
  Seeded <- MCSeeded
  Unscoped = {desk}
  Venue = {v1, v2}
  NoVenue = NoVenue
  RoomId = {r1, r2}
  SeededRooms <- MCRooms
  EquipmentId = {e1, e2}
  SeededEquipment <- MCEquipment
  BookingId = {k1}
  Ghost = Ghost
  Request = {q1, q2}
  Buffers = {10, 11}
  Units = {1, 2}
  Durations = {1, 2}
  MAX_BUFFER = 10
  MAX_POLICIES = 1
SPECIFICATION AccessSpec
INVARIANTS AccessTypeOK TenantIsolation HoldStaysInVenue
PROPERTIES WritesStayHome CrossedOnlyByRace
CONSTRAINT MCBound
SYMMETRY MCSymmetry
CHECK_DEADLOCK FALSE
