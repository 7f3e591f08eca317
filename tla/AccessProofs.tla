---------------------------- MODULE AccessProofs ----------------------------
(***************************************************************************)
(* Proofs about Access, for every set of people, venues, rooms, equipment, *)
(* bookings and updates under way: tenant isolation (INV-6), and what the  *)
(* administration of a venue can and cannot reach.                         *)
(***************************************************************************)
EXTENDS Access, TLAPS

-----------------------------------------------------------------------------
(***************************************************************************)
(* What the types alone do not say.  A token may be old, but never more    *)
(* than its owner's account is; an update under way was asked for by an    *)
(* administrator of its venue, and was coherent with what it had read.     *)
(***************************************************************************)

(* users_venue_ck *)
StaffHaveVenues == \A p \in Person : (account[p].venue \in Venue) <=> (account[p].role \in Staff)

TokensGenuine ==
  \A p \in Person : token[p] # NoToken =>
    /\ token[p].user = p
    /\ token[p].role \in Roles /\ token[p].role = account[p].role
    /\ token[p].venue \in {account[p].venue, NoVenue}

Administers(p, v) == account[p].role = "VENUE_ADMIN" /\ account[p].venue = v

PatchesAllowed ==
  \A q \in Request : patching[q] # NoPatch =>
    /\ Administers(patching[q].by, patching[q].read.venue)
    /\ Coherent(patching[q].read, patching[q].to)

(* A booking's room exists, and so does all that it rents. *)
BookingsWhole ==
  \A b \in Existing(bookings) :
    rooms[bookings[b].room] # Absent /\ bookings[b].items \subseteq Existing(equipment)

IInv == /\ AccessTypeOK /\ StaffHaveVenues /\ TokensGenuine /\ PatchesAllowed
        /\ BookingsWhole /\ HoldStaysInVenue

-----------------------------------------------------------------------------
(* JwtAuthGuard and RolesGuard together: whoever gets past them has a token  *)
(* with a role that the route asks for.                                      *)
LEMMA GuardsPass ==
  ASSUME NEW p \in Person, NEW route, Guards(p, route) = 200
  PROVE  token[p] # NoToken /\ token[p].role \in RequiredRoles(route)
<1>1. CASE token[p] = NoToken
  BY <1>1 DEF Guards
<1>2. CASE token[p] # NoToken /\ token[p].role \notin RequiredRoles(route)
  BY <1>2 DEF Guards
<1> QED BY <1>1, <1>2

(* @Roles on the routes that write, on a hold, and on the report. *)
LEMMA OwnersWrite ==
  /\ \A route \in OwnerRoutes : RequiredRoles(route) = {"VENUE_ADMIN"}
  /\ RequiredRoles("hold") = Roles /\ RequiredRoles("reconciliation") = {"PLATFORM_ADMIN"}
  BY DEF RequiredRoles, OwnerRoutes, DeskRoutes, EquipmentRoutes, BookingRoutes

(* A row of the venue on a token is a row of a venue. *)
LEMMA WritersOwn ==
  ASSUME IInv, NEW p \in Person, NEW route \in OwnerRoutes, MayWrite(p, route)
  PROVE  /\ token[p].venue \in Venue
         /\ account[p].role = "VENUE_ADMIN" /\ account[p].venue = token[p].venue
<1>1. token[p] # NoToken /\ token[p].role = "VENUE_ADMIN" /\ token[p].venue # NoVenue
  BY GuardsPass, OwnersWrite DEF MayWrite
<1> QED BY <1>1 DEF IInv, AccessTypeOK, TokensGenuine

(* Every kind of step keeps the invariant. *)
LEMMA AccountsKept ==
  ASSUME IInv, NEW p \in Person, Register(p) \/ Login(p) \/ ExpireToken(p)
  PROVE  IInv'
<1> DEFINE q == Lower[p]
<1>0. q \in Person /\ Lower[q] = q
  BY AccessAssumption
<1> USE DEF IInv
<1>1. \A x \in Person : account'[x] = account[x] \/ account[x] = NoAccount
  BY <1>0 DEF Register, Login, ExpireToken, AccessTypeOK
<1>2. UNCHANGED <<settings, policies, rooms, equipment, bookings, patching, writer>>
  BY DEF Register, Login, ExpireToken
<1>3. BookingsWhole' /\ HoldStaysInVenue'
  BY <1>2 DEF BookingsWhole, HoldStaysInVenue, Existing
<1>4. PatchesAllowed'
  <2>1. \A x \in Person : \A v : Administers(x, v) => Administers(x, v)'
    BY <1>1 DEF Administers, NoAccount
  <2>2. \A x \in Request : patching[x] # NoPatch => patching[x].by \in Person
    BY DEF AccessTypeOK, Patch
  <2> QED BY <1>2, <2>1, <2>2 DEF PatchesAllowed
<1>5. ASSUME Register(p) PROVE AccessTypeOK' /\ StaffHaveVenues' /\ TokensGenuine'
  <2>1. [role |-> "CUSTOMER", venue |-> NoVenue]
          \in [role : Roles \cup {"NONE"}, venue : Venue \cup {NoVenue}]
    BY DEF Roles
  <2>2. [user |-> q, role |-> "CUSTOMER", venue |-> NoVenue]
          \in [user : Person \cup {Ghost}, role : Roles \cup {"NONE"}, venue : Venue \cup {NoVenue}]
    BY <1>0 DEF Roles
  <2>3. AccessTypeOK'
    BY <1>0, <1>2, <1>5, <2>1, <2>2 DEF Register, AccessTypeOK
  <2>4. StaffHaveVenues'
    BY <1>0, <1>5, AccessAssumption DEF Register, StaffHaveVenues, AccessTypeOK, Staff
  <2>5. TokensGenuine'
    BY <1>0, <1>5 DEF Register, TokensGenuine, AccessTypeOK, Roles
  <2> QED BY <2>3, <2>4, <2>5
<1>6. ASSUME Login(p) PROVE AccessTypeOK' /\ StaffHaveVenues' /\ TokensGenuine'
  <2>1. account[q].role \in Roles
    BY <1>0, <1>6 DEF Login, AccessTypeOK, StaffHaveVenues, NoAccount, Staff
  <2>2. Claims(q) \in [user : Person \cup {Ghost}, role : Roles \cup {"NONE"},
                       venue : Venue \cup {NoVenue}]
    BY <1>0 DEF Claims, AccessTypeOK
  <2>3. AccessTypeOK' /\ StaffHaveVenues'
    BY <1>0, <1>2, <1>6, <2>2 DEF Login, AccessTypeOK, StaffHaveVenues
  <2>4. TokensGenuine'
    BY <1>0, <1>6, <2>1 DEF Login, TokensGenuine, AccessTypeOK, Claims
  <2> QED BY <2>3, <2>4
<1>7. ASSUME ExpireToken(p) PROVE AccessTypeOK' /\ StaffHaveVenues' /\ TokensGenuine'
  BY <1>7 DEF ExpireToken, AccessTypeOK, StaffHaveVenues, TokensGenuine, NoToken
<1> QED BY <1>3, <1>4, <1>5, <1>6, <1>7

(* Replacing a policy or the buffer touches the writer's own venue only.    *)
LEMMA SettingsKept ==
  ASSUME IInv, NEW p \in Person,
         ReplacePolicy(p) \/ \E pct \in Buffers : UpdateSettings(p, pct)
  PROVE  IInv'
<1> USE DEF IInv
<1>1. UNCHANGED <<account, token, rooms, equipment, bookings, patching>>
  BY DEF ReplacePolicy, UpdateSettings
<1>2. /\ settings' \in [Venue -> 0..MAX_BUFFER] /\ policies' \in [Venue -> 0..MAX_POLICIES]
      /\ writer' = p
  BY AccessAssumption DEF ReplacePolicy, UpdateSettings, MayWrite, AccessTypeOK, By
<1> QED BY <1>1, <1>2 DEF AccessTypeOK, StaffHaveVenues, TokensGenuine, PatchesAllowed,
                          Administers, BookingsWhole, HoldStaysInVenue, Existing

(* A venue's rooms and equipment: a row is added, or keeps its venue. *)
LEMMA InventoryKept ==
  ASSUME IInv, UNCHANGED <<account, token, settings, policies, bookings>>, AccessTypeOK',
         \A r \in RoomId : rooms[r] # Absent => rooms'[r].venue = rooms[r].venue,
         \A e \in EquipmentId : equipment[e] # Absent => equipment'[e].venue = equipment[e].venue
  PROVE  StaffHaveVenues' /\ TokensGenuine' /\ BookingsWhole' /\ HoldStaysInVenue'
<1> USE DEF IInv
<1>1. StaffHaveVenues' /\ TokensGenuine'
  BY DEF StaffHaveVenues, TokensGenuine
<1>2. /\ \A r \in RoomId : rooms[r] # Absent => rooms'[r] # Absent
      /\ Existing(equipment) \subseteq Existing(equipment')
  BY AccessAssumption DEF AccessTypeOK, Existing, Absent
<1>3. \A b \in Existing(bookings) :
        bookings[b].room \in RoomId /\ bookings[b].items \subseteq EquipmentId
  BY DEF AccessTypeOK, Existing
<1>4. BookingsWhole'
  BY <1>2, <1>3 DEF BookingsWhole, Existing
<1>5. HoldStaysInVenue'
  BY <1>3 DEF HoldStaysInVenue, BookingsWhole, Existing
<1> QED BY <1>1, <1>4, <1>5

(* What an update leaves of a row: a row of the same venue, with the bounds  *)
(* that were sent and its own others.                                        *)
LEMMA PatchedIs ==
  ASSUME NEW row \in [venue : Venue, min : Durations, max : Durations], NEW to \in Bodies
  PROVE  LET new == Patched(row, to) IN
         /\ new \in [venue : Venue, min : Durations, max : Durations] /\ new.venue = row.venue
         /\ new.min = IF "min" \in DOMAIN to THEN to["min"] ELSE row.min
         /\ new.max = IF "max" \in DOMAIN to THEN to["max"] ELSE row.max
<1> DEFINE new == Patched(row, to)
<1>1. PICK B \in {{"min"}, {"max"}, {"min", "max"}} : to \in [B -> Durations]
  BY DEF Bodies
<1>2. new = [f \in {"venue", "min", "max"} |-> IF f \in B THEN to[f] ELSE row[f]]
  BY <1>1 DEF Patched
<1>3. \A f \in {"min", "max"} : new[f] \in Durations
  BY <1>1, <1>2
<1>4. new = [venue |-> row.venue, min |-> new["min"], max |-> new["max"]]
  BY <1>1, <1>2
<1> QED BY <1>1, <1>2, <1>3, <1>4

(* Creating and updating rooms: a room stays in the venue it was created    *)
(* in, and an update under way was allowed when it read.                    *)
LEMMA RoomsKept ==
  ASSUME IInv,
         \/ \E p \in Person, r \in RoomId, min, max \in Durations : CreateRoom(p, r, min, max)
         \/ \E p \in Person, q \in Request, r \in RoomId, to \in Bodies : UpdateRoomRead(p, q, r, to)
         \/ \E q \in Request : UpdateRoomWrite(q)
  PROVE  IInv'
<1> USE DEF IInv
<1> DEFINE RoomRow == [venue : Venue, min : Durations, max : Durations]
<1>1. ASSUME NEW p \in Person, NEW r \in RoomId, NEW min \in Durations, NEW max \in Durations,
             CreateRoom(p, r, min, max)
      PROVE  IInv'
  <2>1. token[p].venue \in Venue
    BY <1>1, WritersOwn DEF CreateRoom, OwnerRoutes
  <2>2. AccessTypeOK'
    BY <1>1, <2>1 DEF CreateRoom, AccessTypeOK, By
  <2>3. StaffHaveVenues' /\ TokensGenuine' /\ BookingsWhole' /\ HoldStaysInVenue'
    BY <1>1, <2>2, InventoryKept DEF CreateRoom, AccessTypeOK
  <2>4. PatchesAllowed'
    BY <1>1 DEF CreateRoom, PatchesAllowed, Administers
  <2> QED BY <2>2, <2>3, <2>4
<1>2. ASSUME NEW p \in Person, NEW q \in Request, NEW r \in RoomId, NEW to \in Bodies,
             UpdateRoomRead(p, q, r, to)
      PROVE  IInv'
  <2>1. rooms[r] \in RoomRow /\ rooms[r].venue = token[p].venue
    BY <1>2 DEF UpdateRoomRead, OfVenue, AccessTypeOK
  <2>2. token[p].user = p /\ Administers(p, token[p].venue)
    BY <1>2, WritersOwn, GuardsPass DEF UpdateRoomRead, MayWrite, OwnerRoutes, Administers, TokensGenuine
  <2>3. AccessTypeOK'
    BY <1>2, <2>1, <2>2 DEF UpdateRoomRead, AccessTypeOK, Patch
  <2>4. StaffHaveVenues' /\ TokensGenuine' /\ BookingsWhole' /\ HoldStaysInVenue'
    BY <1>2, <2>3, InventoryKept DEF UpdateRoomRead
  <2>5. PatchesAllowed'
    <3>1. /\ patching' = [patching EXCEPT ![q] = [room |-> r, by |-> p, to |-> to, read |-> rooms[r]]]
          /\ Coherent(rooms[r], to) /\ account' = account
      BY <1>2, <2>2 DEF UpdateRoomRead
    <3> QED BY <2>1, <2>2, <3>1 DEF PatchesAllowed, Administers, AccessTypeOK
  <2> QED BY <2>3, <2>4, <2>5
<1>3. ASSUME NEW q \in Request, UpdateRoomWrite(q) PROVE IInv'
  <2>1. patching[q] \in Patch
    BY <1>3 DEF UpdateRoomWrite, AccessTypeOK
  <2>2. rooms[patching[q].room] \in RoomRow
    BY <1>3, <2>1 DEF UpdateRoomWrite, OfVenue, Patch, AccessTypeOK
  <2> DEFINE row == Patched(rooms[patching[q].room], patching[q].to)
  <2>3. row \in RoomRow /\ row.venue = rooms[patching[q].room].venue
    BY <2>1, <2>2, PatchedIs DEF Patch
  <2>4. rooms' = [rooms EXCEPT ![patching[q].room] = row]
    BY <1>3 DEF UpdateRoomWrite
  <2> HIDE DEF row
  <2>5. AccessTypeOK'
    BY <1>3, <2>1, <2>3, <2>4 DEF UpdateRoomWrite, Patch, AccessTypeOK, By
  <2>6. \A r \in RoomId : rooms'[r].venue = rooms[r].venue
    BY <2>1, <2>3, <2>4 DEF Patch, AccessTypeOK
  <2>7. StaffHaveVenues' /\ TokensGenuine' /\ BookingsWhole' /\ HoldStaysInVenue'
    BY <1>3, <2>5, <2>6, InventoryKept DEF UpdateRoomWrite
  <2>8. PatchesAllowed'
    BY <1>3 DEF UpdateRoomWrite, PatchesAllowed, Administers, AccessTypeOK
  <2> QED BY <2>5, <2>7, <2>8
<1> QED BY <1>1, <1>2, <1>3

(* Equipment types are written in the writer's own venue.                   *)
LEMMA EquipmentKept ==
  ASSUME IInv, NEW p \in Person, NEW e \in EquipmentId, NEW units \in Units,
         CreateEquipmentType(p, e, units) \/ UpdateEquipmentType(p, e, units)
  PROVE  IInv'
<1> USE DEF IInv
<1>1. token[p].venue \in Venue
  BY WritersOwn DEF CreateEquipmentType, UpdateEquipmentType, OwnerRoutes
<1>2. AccessTypeOK'
  <2>1. CASE CreateEquipmentType(p, e, units)
    BY <1>1, <2>1 DEF CreateEquipmentType, AccessTypeOK, By
  <2>2. CASE UpdateEquipmentType(p, e, units)
    <3>1. equipment[e] \in [venue : Venue, units : Units]
      BY <2>2 DEF UpdateEquipmentType, OfVenue, AccessTypeOK
    <3>2. [equipment[e] EXCEPT !.units = units] \in [venue : Venue, units : Units]
      BY <3>1
    <3> QED BY <2>2, <3>2 DEF UpdateEquipmentType, AccessTypeOK, By
  <2> QED BY <2>1, <2>2
<1>3. StaffHaveVenues' /\ TokensGenuine' /\ BookingsWhole' /\ HoldStaysInVenue'
  <2>1. \A x \in EquipmentId : equipment[x] # Absent => equipment'[x].venue = equipment[x].venue
    BY DEF CreateEquipmentType, UpdateEquipmentType, OfVenue, AccessTypeOK
  <2> QED BY <1>2, <2>1, InventoryKept DEF CreateEquipmentType, UpdateEquipmentType
<1>4. PatchesAllowed'
  BY DEF CreateEquipmentType, UpdateEquipmentType, PatchesAllowed, Administers
<1> QED BY <1>2, <1>3, <1>4

(* A hold rents equipment of its room's venue only.                         *)
LEMMA BookingsKept ==
  ASSUME IInv, NEW p \in Person, NEW b \in BookingId, NEW r \in RoomId,
         NEW items \in SUBSET EquipmentId, Hold(p, b, r, items)
  PROVE  IInv'
<1> USE DEF IInv
<1>1. token[p].user = p
  BY GuardsPass DEF Hold, TokensGenuine
<1>2. rooms[r] # Absent /\ rooms[r].venue \in Venue
  BY DEF Hold, AccessTypeOK
<1>3. items \subseteq Existing(equipment) /\ \A e \in items : equipment[e].venue = rooms[r].venue
  BY DEF Hold, SameVenue, OfVenue, Existing
<1>4. AccessTypeOK'
  BY <1>1, <1>2 DEF Hold, AccessTypeOK, By
<1>5. StaffHaveVenues' /\ TokensGenuine' /\ PatchesAllowed'
  BY DEF Hold, StaffHaveVenues, TokensGenuine, PatchesAllowed, Administers
<1>6. BookingsWhole' /\ HoldStaysInVenue'
  <2> DEFINE new == [venue |-> rooms[r].venue, user |-> token[p].user, room |-> r, items |-> items]
  <2>1. /\ bookings' = [bookings EXCEPT ![b] = new]
        /\ UNCHANGED <<rooms, equipment>>
    BY DEF Hold
  <2>2. \A x \in Existing(bookings') : x = b \/ (x \in Existing(bookings) /\ bookings'[x] = bookings[x])
    BY <2>1 DEF Existing, AccessTypeOK
  <2>3. bookings'[b] = new
    BY <2>1 DEF AccessTypeOK
  <2>4. BookingsWhole'
    BY <1>2, <1>3, <2>1, <2>2, <2>3 DEF BookingsWhole, Existing
  <2>5. HoldStaysInVenue'
    BY <1>3, <2>1, <2>2, <2>3 DEF HoldStaysInVenue
  <2> QED BY <2>4, <2>5
<1> QED BY <1>4, <1>5, <1>6

(* The inductive invariant of access, for any number of people, venues,     *)
(* rooms and overlapping updates.                                           *)
THEOREM InvariantHolds == AccessSpec => []IInv
<1>1. AccessInit => IInv
  <2> SUFFICES ASSUME AccessInit PROVE IInv
    OBVIOUS
  <2> USE AccessAssumption DEF AccessInit
  <2>1. AccessTypeOK
    <3> USE DEF AccessTypeOK
    <3>1. /\ account \in [Person -> [role : Roles \cup {"NONE"}, venue : Venue \cup {NoVenue}]]
          /\ \A p \in Person : account[p] # NoAccount => Lower[p] = p
      BY DEF NoAccount
    <3>2. token \in [Person -> [user : Person \cup {Ghost}, role : Roles \cup {"NONE"},
                                venue : Venue \cup {NoVenue}]]
      BY DEF NoToken
    <3>3. settings \in [Venue -> 0..MAX_BUFFER] /\ policies \in [Venue -> 0..MAX_POLICIES]
      OBVIOUS
    <3>4. /\ rooms \in [RoomId -> [venue : Venue, min : Durations, max : Durations] \cup {Absent}]
          /\ equipment \in [EquipmentId -> [venue : Venue, units : Units] \cup {Absent}]
      OBVIOUS
    <3> QED BY <3>1, <3>2, <3>3, <3>4
  <2>2. StaffHaveVenues
    BY DEF StaffHaveVenues, NoAccount, Staff
  <2>3. TokensGenuine
    BY DEF TokensGenuine, NoToken, Roles, Staff
  <2>4. PatchesAllowed
    BY DEF PatchesAllowed
  <2>5. BookingsWhole /\ HoldStaysInVenue
    BY DEF BookingsWhole, HoldStaysInVenue, Existing
  <2> QED BY <2>1, <2>2, <2>3, <2>4, <2>5 DEF IInv
<1>2. IInv /\ [AccessNext]_vars => IInv'
  <2> SUFFICES ASSUME IInv, [AccessNext]_vars PROVE IInv'
    OBVIOUS
  <2>1. CASE UNCHANGED vars
    BY <2>1 DEF vars, IInv, AccessTypeOK, StaffHaveVenues, TokensGenuine, PatchesAllowed,
                Administers, BookingsWhole, HoldStaysInVenue, Existing
  <2> QED
    BY <2>1, AccountsKept, SettingsKept, RoomsKept, EquipmentKept, BookingsKept DEF AccessNext
<1> QED
  BY <1>1, <1>2, PTL DEF AccessSpec

(* Tables and tokens keep their types, no account is stored under a second  *)
(* spelling of an address, and the buffer keeps to its cap (AuthService,    *)
(* VenuesAdminService and the constraints of the schema).                   *)
THEOREM TypeCorrect == AccessSpec => []AccessTypeOK
  BY InvariantHolds, PTL DEF IInv

(* A booking, its room and what is rented with it are of one venue, at any   *)
(* number of venues and whatever is created meanwhile (BookingsService.hold).*)
THEOREM HoldsStayInVenue == AccessSpec => []HoldStaysInVenue
  BY InvariantHolds, PTL DEF IInv

-----------------------------------------------------------------------------
(* What the routes select, spelled out: which rows the holder of a genuine   *)
(* token is given by each kind of route.                                     *)
LEMMA Selections ==
  ASSUME NEW t
  PROVE  /\ \A route \in BookingRoutes : Selected(t, route) = {"booking"} \X scopeFilter(t)
         /\ Selected(t, "reconciliation") = {"booking"} \X Existing(bookings)
         /\ Selected(t, "revenue") = {"booking"} \X OfVenue(bookings, t.venue)
         /\ \A route \in EquipmentRoutes : Selected(t, route) = {"equipment"} \X EquipmentScope(t)
         /\ Selected(t, "update_equipment") = {"equipment"} \X OfVenue(equipment, t.venue)
         /\ \A route \in {"list_rooms", "update_room"} :
              Selected(t, route) = {"room"} \X OfVenue(rooms, t.venue)
         /\ \A route \in {"settings", "update_settings", "replace_policy", "current_policy"} :
              Selected(t, route) = {"venue"} \X ({t.venue} \cap Venue)
         /\ \A route \in {"create_room", "create_equipment", "hold"} : Selected(t, route) = {}
  BY DEF Selected, BookingRoutes, EquipmentRoutes

(* The tenant filter of a role is the one the code branches to. *)
LEMMA Filters ==
  ASSUME NEW t
  PROVE  /\ t.role = "PLATFORM_ADMIN" => scopeFilter(t) = Existing(bookings)
         /\ t.role \in Staff => scopeFilter(t) = OfVenue(bookings, t.venue)
         /\ t.role = "CUSTOMER" =>
              scopeFilter(t) = {b \in Existing(bookings) : bookings[b].user = t.user}
  BY DEF scopeFilter, Staff

(* INV-6: no route selects a row of another venue or of another customer,    *)
(* whoever calls it, with a token however old, for any number of tenants.    *)
THEOREM TenantsIsolated == AccessSpec => []TenantIsolation
<1>1. IInv => TenantIsolation
  <2> SUFFICES ASSUME IInv, NEW p \in Person, NEW route \in Routes,
                      token[p] # NoToken, Guards(p, route) = 200,
                      NEW row \in Selected(token[p], route)
               PROVE  Entitled(token[p].user, row)
    BY DEF TenantIsolation
  <2> DEFINE t == token[p]
  <2> USE DEF IInv
  <2>1. /\ t.user = p /\ t.role \in Roles /\ t.role = account[p].role
        /\ t.venue \in {account[p].venue, NoVenue}
    BY DEF TokensGenuine
  <2>2. t.role \in RequiredRoles(route)
    BY GuardsPass
  <2>3. /\ \A b \in Existing(bookings) : bookings[b].venue \in Venue
        /\ \A e \in Existing(equipment) : equipment[e].venue \in Venue
        /\ \A r \in Existing(rooms) : rooms[r].venue \in Venue
    BY DEF AccessTypeOK, Existing
  <2>4. ASSUME NEW x \in OfVenue(bookings, t.venue), t.role \in Staff
        PROVE  Entitled(p, <<"booking", x>>)
    BY <2>1, <2>3, <2>4, AccessAssumption DEF OfVenue, Existing, Entitled, VenueOf
  <2>5. ASSUME NEW x \in OfVenue(equipment, t.venue), t.role \in Staff
        PROVE  Entitled(p, <<"equipment", x>>)
    BY <2>1, <2>3, <2>5, AccessAssumption DEF OfVenue, Existing, Entitled, VenueOf
  <2>6. ASSUME NEW x \in OfVenue(rooms, t.venue), t.role \in Staff
        PROVE  Entitled(p, <<"room", x>>)
    BY <2>1, <2>3, <2>6, AccessAssumption DEF OfVenue, Existing, Entitled, VenueOf
  <2>7. ASSUME NEW x \in {t.venue} \cap Venue, t.role \in Staff
        PROVE  Entitled(p, <<"venue", x>>)
    BY <2>1, <2>7, AccessAssumption DEF Entitled, VenueOf
  <2>8. CASE t.role = "PLATFORM_ADMIN"
    BY <2>1, <2>8 DEF Entitled
  <2>9. CASE t.role \in Staff
    <3>1. CASE route \in BookingRoutes
      BY <2>1, <2>4, <2>9, <3>1, Selections, Filters
    <3>2. CASE route \in EquipmentRoutes
      BY <2>1, <2>5, <2>9, <3>2, Selections DEF EquipmentScope, Staff
    <3>3. CASE route \in DeskRoutes
      BY <2>1, <2>4, <2>6, <2>7, <2>9, <3>3, Selections DEF DeskRoutes
    <3>4. CASE route \in OwnerRoutes
      BY <2>1, <2>5, <2>6, <2>7, <2>9, <3>4, Selections DEF OwnerRoutes
    <3>5. CASE route \in {"hold", "current_policy"}
      BY <2>1, <2>7, <2>9, <3>5, Selections
    <3>6. route # "reconciliation"
      BY <2>2, <2>9, OwnersWrite DEF Staff
    <3> QED BY <3>1, <3>2, <3>3, <3>4, <3>5, <3>6 DEF Routes
  <2>10. CASE t.role = "CUSTOMER"
    <3>1. route \in BookingRoutes \cup {"hold"}
      <4>1. CASE route \in OwnerRoutes
        BY <2>2, <2>10, <4>1, OwnersWrite
      <4>2. CASE route \in DeskRoutes \cup EquipmentRoutes \cup {"current_policy", "reconciliation"}
        BY <2>2, <2>10, <4>2 DEF RequiredRoles, Staff, OwnerRoutes, DeskRoutes, EquipmentRoutes,
                                 BookingRoutes
      <4> QED BY <4>1, <4>2 DEF Routes
    <3>2. CASE route \in BookingRoutes
      <4>1. PICK b \in scopeFilter(t) : row = <<"booking", b>>
        BY <3>2, Selections
      <4>2. bookings[b].user = p
        BY <2>1, <2>10, <4>1, Filters
      <4> QED BY <2>1, <2>10, <4>1, <4>2 DEF Entitled
    <3> QED BY <3>1, <3>2, Selections
  <2> QED BY <2>1, <2>8, <2>9, <2>10 DEF Roles
<1> QED
  BY <1>1, InvariantHolds, PTL

(* A venue's rooms, equipment, settings and policy are changed by requests   *)
(* of its own administrators and of nobody else, also when the write lands   *)
(* after the token is gone (VenuesAdminService, PoliciesService).            *)
THEOREM WritesStayAtHome == AccessSpec => WritesStayHome
<1>1. IInv /\ [AccessNext]_vars
        => [\A v \in Venue : OwnedBy(v)' # OwnedBy(v) =>
              /\ writer' \in Person
              /\ account[writer'].role = "VENUE_ADMIN" /\ account[writer'].venue = v]_vars
  <2> SUFFICES ASSUME IInv, AccessNext, NEW v \in Venue, OwnedBy(v)' # OwnedBy(v)
               PROVE  writer' \in Person /\ Administers(writer', v)
    BY DEF Administers
  <2> DEFINE AtHome == writer' \in Person /\ Administers(writer', v)
  <2> USE DEF IInv
  <2>0. ASSUME UNCHANGED <<rooms, equipment, settings, policies>> PROVE FALSE
    BY <2>0 DEF OwnedBy, OfVenue
  <2>1. ASSUME NEW p \in Person, Register(p) \/ Login(p) \/ ExpireToken(p) PROVE FALSE
    BY <2>0, <2>1 DEF Register, Login, ExpireToken
  <2>2. ASSUME NEW p \in Person, NEW route \in OwnerRoutes, MayWrite(p, route), token[p].venue = v,
               By(p)
        PROVE  AtHome
    BY <2>2, WritersOwn DEF Administers, By
  <2>3. ASSUME NEW p \in Person, ReplacePolicy(p) PROVE AtHome
    <3>1. policies'[v] # policies[v]
      BY <2>3 DEF ReplacePolicy, OwnedBy, OfVenue
    <3>2. token[p].venue = v
      BY <2>3, <3>1 DEF ReplacePolicy, AccessTypeOK
    <3> QED BY <2>2, <2>3, <3>2 DEF ReplacePolicy, OwnerRoutes
  <2>4. ASSUME NEW p \in Person, NEW pct \in Buffers, UpdateSettings(p, pct)
        PROVE  AtHome
    <3>1. settings'[v] # settings[v]
      BY <2>4 DEF UpdateSettings, OwnedBy, OfVenue
    <3>2. token[p].venue = v
      BY <2>4, <3>1 DEF UpdateSettings, AccessTypeOK
    <3> QED BY <2>2, <2>4, <3>2 DEF UpdateSettings, OwnerRoutes
  <2>5. ASSUME UNCHANGED <<equipment, settings, policies>>, NEW r \in RoomId,
               NEW row \in [venue : Venue, min : Durations, max : Durations],
               rooms' = [rooms EXCEPT ![r] = row], rooms[r].venue \in {row.venue, NoVenue}
        PROVE  row.venue = v
    <3> SUFFICES ASSUME row.venue # v PROVE FALSE
      OBVIOUS
    <3>1. \A x \in RoomId : x # r => rooms'[x] = rooms[x]
      BY <2>5 DEF AccessTypeOK
    <3>2. rooms'[r] = row /\ rooms[r].venue # v /\ DOMAIN rooms' = DOMAIN rooms
      BY <2>5, AccessAssumption DEF AccessTypeOK
    <3>3. OfVenue(rooms', v) = OfVenue(rooms, v) /\ r \notin OfVenue(rooms, v)
      BY <3>1, <3>2 DEF OfVenue, AccessTypeOK
    <3>4. {<<x, rooms'[x]>> : x \in OfVenue(rooms', v)} = {<<x, rooms[x]>> : x \in OfVenue(rooms, v)}
      BY <3>1, <3>3 DEF OfVenue, AccessTypeOK
    <3> QED BY <2>5, <3>4 DEF OwnedBy, OfVenue
  <2>6. ASSUME UNCHANGED <<rooms, settings, policies>>, NEW e \in EquipmentId,
               NEW row \in [venue : Venue, units : Units],
               equipment' = [equipment EXCEPT ![e] = row],
               equipment[e].venue \in {row.venue, NoVenue}
        PROVE  row.venue = v
    <3> SUFFICES ASSUME row.venue # v PROVE FALSE
      OBVIOUS
    <3>1. \A x \in EquipmentId : x # e => equipment'[x] = equipment[x]
      BY <2>6 DEF AccessTypeOK
    <3>2. equipment'[e] = row /\ equipment[e].venue # v /\ DOMAIN equipment' = DOMAIN equipment
      BY <2>6, AccessAssumption DEF AccessTypeOK
    <3>3. OfVenue(equipment', v) = OfVenue(equipment, v) /\ e \notin OfVenue(equipment, v)
      BY <3>1, <3>2 DEF OfVenue, AccessTypeOK
    <3>4. {<<x, equipment'[x]>> : x \in OfVenue(equipment', v)}
            = {<<x, equipment[x]>> : x \in OfVenue(equipment, v)}
      BY <3>1, <3>3 DEF OfVenue, AccessTypeOK
    <3> QED BY <2>6, <3>4 DEF OwnedBy, OfVenue
  <2>7. ASSUME NEW p \in Person, NEW r \in RoomId, NEW min \in Durations, NEW max \in Durations,
               CreateRoom(p, r, min, max)
        PROVE  AtHome
    <3> DEFINE row == [venue |-> token[p].venue, min |-> min, max |-> max]
    <3>1. token[p].venue \in Venue /\ rooms[r] = Absent
      BY <2>7, WritersOwn DEF CreateRoom, OwnerRoutes
    <3>2. row \in [venue : Venue, min : Durations, max : Durations] /\ rooms[r].venue = NoVenue
      BY <3>1 DEF Absent
    <3>3. row.venue = v
      BY <2>5, <2>7, <3>2 DEF CreateRoom
    <3> QED BY <2>2, <2>7, <3>3 DEF CreateRoom, OwnerRoutes
  <2>8. ASSUME NEW p \in Person, NEW q \in Request, NEW r \in RoomId, NEW to \in Bodies,
               UpdateRoomRead(p, q, r, to)
        PROVE  FALSE
    BY <2>0, <2>8 DEF UpdateRoomRead
  <2>9. ASSUME NEW q \in Request, UpdateRoomWrite(q) PROVE AtHome
    <3> DEFINE old == rooms[patching[q].room]
               row == Patched(old, patching[q].to)
    <3>1. /\ patching[q] \in Patch /\ patching[q] # NoPatch /\ patching[q].room \in RoomId
          /\ old \in [venue : Venue, min : Durations, max : Durations]
          /\ old.venue = patching[q].read.venue
      BY <2>9 DEF UpdateRoomWrite, OfVenue, Patch, AccessTypeOK
    <3>2. row \in [venue : Venue, min : Durations, max : Durations] /\ row.venue = old.venue
      BY <3>1, PatchedIs DEF Patch
    <3>3. rooms' = [rooms EXCEPT ![patching[q].room] = row]
      BY <2>9 DEF UpdateRoomWrite
    <3> HIDE DEF row
    <3>4. row.venue = v
      BY <2>5, <2>9, <3>1, <3>2, <3>3 DEF UpdateRoomWrite
    <3>5. writer' = patching[q].by /\ patching[q].by \in Person
      BY <2>9, <3>1 DEF UpdateRoomWrite, By, Patch
    <3> QED BY <3>1, <3>2, <3>4, <3>5 DEF PatchesAllowed
  <2>10. ASSUME NEW p \in Person, NEW e \in EquipmentId, NEW units \in Units,
                CreateEquipmentType(p, e, units)
         PROVE  AtHome
    <3> DEFINE row == [venue |-> token[p].venue, units |-> units]
    <3>1. token[p].venue \in Venue /\ equipment[e] = Absent
      BY <2>10, WritersOwn DEF CreateEquipmentType, OwnerRoutes
    <3>2. row \in [venue : Venue, units : Units] /\ equipment[e].venue = NoVenue
      BY <3>1 DEF Absent
    <3>3. row.venue = v
      BY <2>6, <2>10, <3>2 DEF CreateEquipmentType
    <3> QED BY <2>2, <2>10, <3>3 DEF CreateEquipmentType, OwnerRoutes
  <2>11. ASSUME NEW p \in Person, NEW e \in EquipmentId, NEW units \in Units,
                UpdateEquipmentType(p, e, units)
         PROVE  AtHome
    <3> DEFINE row == [equipment[e] EXCEPT !.units = units]
    <3>1. equipment[e] \in [venue : Venue, units : Units] /\ equipment[e].venue = token[p].venue
      BY <2>11 DEF UpdateEquipmentType, OfVenue, AccessTypeOK
    <3>2. row \in [venue : Venue, units : Units] /\ row.venue = token[p].venue
      BY <3>1
    <3>3. row.venue = v
      BY <2>6, <2>11, <3>1, <3>2 DEF UpdateEquipmentType
    <3> QED BY <2>2, <2>11, <3>2, <3>3 DEF UpdateEquipmentType, OwnerRoutes
  <2>12. ASSUME NEW p \in Person, NEW b \in BookingId, NEW r \in RoomId,
                NEW items \in SUBSET EquipmentId, Hold(p, b, r, items)
         PROVE  FALSE
    BY <2>0, <2>12 DEF Hold
  <2> QED BY <2>1, <2>3, <2>4, <2>7, <2>8, <2>9, <2>10, <2>11, <2>12 DEF AccessNext
<1> QED
  BY <1>1, InvariantHolds, PTL DEF AccessSpec, WritesStayHome

(* A room's shortest and longest booking cross only in a race: the update    *)
(* that crosses them had read a bound that has changed since (updateRoom).   *)
THEOREM CrossingNeedsARace == AccessSpec => CrossedOnlyByRace
<1> DEFINE Raced(r) ==
      \E q \in Request :
        /\ patching[q] # NoPatch /\ patching'[q] = NoPatch /\ patching[q].room = r
        /\ \E f \in {"min", "max"} \ DOMAIN patching[q].to : patching[q].read[f] # rooms[r][f]
<1>1. IInv /\ [AccessNext]_vars
        => [\A r \in RoomId :
              (rooms[r] # Absent /\ rooms[r].min <= rooms[r].max /\ rooms'[r].min > rooms'[r].max)
                => Raced(r)]_vars
  <2> SUFFICES ASSUME IInv, AccessNext, NEW r \in RoomId, rooms[r] # Absent,
                      rooms[r].min <= rooms[r].max, rooms'[r].min > rooms'[r].max
               PROVE  Raced(r)
    OBVIOUS
  <2> USE DEF IInv
  <2>1. rooms[r] \in [venue : Venue, min : Durations, max : Durations] /\ Durations \subseteq Nat
    BY AccessAssumption DEF AccessTypeOK
  <2>2. rooms'[r] # rooms[r]
    <3>0. rooms[r].min \in Durations /\ rooms[r].max \in Durations
      BY <2>1, Zenon
    <3>1. rooms[r].min \in Nat /\ rooms[r].max \in Nat
      BY <2>1, <3>0, Zenon
    <3>2. ~(rooms[r].min > rooms[r].max)
      BY <3>1
    <3> QED BY <3>2
  <2>3. ASSUME NEW p \in Person, NEW x \in RoomId, NEW min \in Durations, NEW max \in Durations,
               CreateRoom(p, x, min, max)
        PROVE  FALSE
    BY <2>2, <2>3 DEF CreateRoom, AccessTypeOK
  <2>4. \E q \in Request : UpdateRoomWrite(q)
    <3>1. \A p \in Person : ~(Register(p) \/ Login(p) \/ ExpireToken(p) \/ ReplacePolicy(p))
      BY <2>2 DEF Register, Login, ExpireToken, ReplacePolicy
    <3>2. \A p \in Person, q \in Request, x \in RoomId, to \in Bodies : ~UpdateRoomRead(p, q, x, to)
      BY <2>2 DEF UpdateRoomRead
    <3>3. /\ \A p \in Person, pct \in Buffers : ~UpdateSettings(p, pct)
          /\ \A p \in Person, e \in EquipmentId, units \in Units :
               ~(CreateEquipmentType(p, e, units) \/ UpdateEquipmentType(p, e, units))
          /\ \A p \in Person, b \in BookingId, x \in RoomId, items \in SUBSET EquipmentId :
               ~Hold(p, b, x, items)
      BY <2>2 DEF UpdateSettings, CreateEquipmentType, UpdateEquipmentType, Hold
    <3> QED BY <2>3, <3>1, <3>2, <3>3 DEF AccessNext
  <2>5. PICK q \in Request : UpdateRoomWrite(q)
    BY <2>4
  <2>6. patching[q] \in Patch /\ patching[q] # NoPatch /\ patching'[q] = NoPatch /\ patching[q].room = r
    BY <2>2, <2>5 DEF UpdateRoomWrite, AccessTypeOK
  <2>7. rooms'[r] = Patched(rooms[r], patching[q].to)
    BY <2>5, <2>6 DEF UpdateRoomWrite, AccessTypeOK
  <2> DEFINE to == patching[q].to
             read == patching[q].read
  <2>8. /\ to \in Bodies /\ read \in [venue : Venue, min : Durations, max : Durations]
        /\ Patched(read, to).min <= Patched(read, to).max
    BY <2>6 DEF PatchesAllowed, Coherent, Patch
  <2>9. \E f \in {"min", "max"} \ DOMAIN to : read[f] # rooms[r][f]
    <3> SUFFICES ASSUME \A f \in {"min", "max"} : f \in DOMAIN to \/ read[f] = rooms[r][f]
                 PROVE  FALSE
      OBVIOUS
    <3>1. Patched(read, to).min = rooms'[r].min /\ Patched(read, to).max = rooms'[r].max
      BY <2>1, <2>7, <2>8, PatchedIs
    <3>2. rooms'[r].min \in Nat /\ rooms'[r].max \in Nat
      BY <2>1, <2>7, <2>8, PatchedIs
    <3>3. rooms'[r].min <= rooms'[r].max
      BY <2>8, <3>1
    <3> QED BY <3>2, <3>3
  <2> QED BY <2>6, <2>9
<1> QED
  BY <1>1, InvariantHolds, PTL DEF AccessSpec, CrossedOnlyByRace
=============================================================================
