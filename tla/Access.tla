------------------------------- MODULE Access -------------------------------
(***************************************************************************)
(* Who may see and change what: accounts and tokens, the three guards in   *)
(* front of every route, the tenant filters in the queries behind them     *)
(* (INV-6), and the administration of a venue's own configuration.         *)
(*                                                                         *)
(* A read changes nothing, so it is an operator: what the route selects,   *)
(* and how it answers, for a caller and an id.  A write is an action.  All *)
(* of them are one statement but the update of a room, which reads the row *)
(* it validates against before it writes.                                  *)
(***************************************************************************)
EXTENDS Integers, FiniteSets

CONSTANTS
  Person,       \* e-mail addresses as people type them
  Lower,        \* toLowerCase: the spelling an account is stored under
  Seeded,       \* accounts that exist from the start: [role, venue] by address
  Unscoped,     \* staff who still hold a token without the venue on it
  Venue, NoVenue,
  RoomId, SeededRooms,            \* ids, and the rows that exist from the start
  EquipmentId, SeededEquipment,
  BookingId,
  Ghost,        \* an id nothing ever has
  Request,      \* PATCHes of rooms under way
  Buffers, Units, Durations,  \* values the bodies may carry
  MAX_BUFFER,   \* the cap of venues_overbooking_buffer_ck and of the schema
  MAX_POLICIES  \* bound: policies a venue writes

VARIABLES
  account,    \* users, by the e-mail stored
  token,      \* the JWT the holder of each address has
  settings,   \* venues.overbooking_buffer_pct
  policies,   \* cancellation_policies of the venue, how many
  rooms, equipment, bookings,
  patching,   \* updateRoom between its read and its write
  writer      \* history: whose request was carried out last

vars == <<account, token, settings, policies, rooms, equipment, bookings, patching, writer>>

Staff == {"VENUE_ADMIN", "VENUE_STAFF"}
Roles == Staff \cup {"CUSTOMER", "PLATFORM_ADMIN"}

NoAccount == [role |-> "NONE", venue |-> NoVenue]
NoToken == [user |-> Ghost, role |-> "NONE", venue |-> NoVenue]
Absent == [venue |-> NoVenue]
NoPatch == [room |-> Ghost]

(* users_venue_ck: staff have a venue and nobody else has one. *)
ASSUME AccessAssumption ==
  /\ NoVenue \notin Venue /\ Ghost \notin Person \cup RoomId \cup EquipmentId \cup BookingId
  /\ DOMAIN Seeded \subseteq Person /\ Lower \in [Person -> Person]
  /\ \A p \in Person : Lower[Lower[p]] = Lower[p]
  /\ \A p \in DOMAIN Seeded : /\ Seeded[p] \in [role : Roles, venue : Venue \cup {NoVenue}]
                              /\ (Seeded[p].venue \in Venue) = (Seeded[p].role \in Staff)
                              /\ Lower[p] = p
  /\ \A p \in Unscoped : p \in DOMAIN Seeded /\ Seeded[p].role \in Staff
  /\ \A r \in DOMAIN SeededRooms :
       SeededRooms[r] \in [venue : Venue, min : Durations, max : Durations]
  /\ \A e \in DOMAIN SeededEquipment : SeededEquipment[e] \in [venue : Venue, units : Units]
  /\ Durations \subseteq Nat /\ Buffers \subseteq Nat
  /\ MAX_BUFFER \in Nat /\ MAX_POLICIES \in Nat

(* The bounds a body may send: one of them or both. *)
Bodies == UNION {[B -> Durations] : B \in {{"min"}, {"max"}, {"min", "max"}}}

(* by: who asked for the update; read: the row as it was when it was read. *)
Patch == [room : RoomId, by : Person, to : Bodies,
          read : [venue : Venue, min : Durations, max : Durations]]

(* Tables and tokens keep their types.  An account is only ever stored      *)
(* under the lower-case spelling of its address, so two spellings of one    *)
(* mailbox never become two customers, each with half of the bookings; and  *)
(* the buffer never exceeds the cap.                                        *)
AccessTypeOK ==
  /\ account \in [Person -> [role : Roles \cup {"NONE"}, venue : Venue \cup {NoVenue}]]
  /\ \A p \in Person : account[p] # NoAccount => Lower[p] = p
  /\ token \in [Person -> [user : Person \cup {Ghost}, role : Roles \cup {"NONE"},
                           venue : Venue \cup {NoVenue}]]
  /\ settings \in [Venue -> 0..MAX_BUFFER]
  /\ policies \in [Venue -> 0..MAX_POLICIES]
  /\ rooms \in [RoomId -> [venue : Venue, min : Durations, max : Durations] \cup {Absent}]
  /\ equipment \in [EquipmentId -> [venue : Venue, units : Units] \cup {Absent}]
  /\ bookings \in [BookingId -> [venue : Venue, user : Person, room : RoomId,
                                 items : SUBSET EquipmentId] \cup {Absent}]
  /\ patching \in [Request -> Patch \cup {NoPatch}]
  /\ writer \in Person \cup {Ghost}

Claims(p) == [user |-> p, role |-> account[p].role, venue |-> account[p].venue]

AccessInit ==
  /\ account = [p \in Person |-> IF p \in DOMAIN Seeded THEN Seeded[p] ELSE NoAccount]
  /\ token = [p \in Person |-> IF p \in Unscoped
                THEN [user |-> p, role |-> Seeded[p].role, venue |-> NoVenue] ELSE NoToken]
  /\ settings = [v \in Venue |-> 0]
  /\ policies = [v \in Venue |-> 0]
  /\ rooms = [r \in RoomId |-> IF r \in DOMAIN SeededRooms THEN SeededRooms[r] ELSE Absent]
  /\ equipment = [e \in EquipmentId |->
                    IF e \in DOMAIN SeededEquipment THEN SeededEquipment[e] ELSE Absent]
  /\ bookings = [b \in BookingId |-> Absent]
  /\ patching = [q \in Request |-> NoPatch]
  /\ writer = Ghost

-----------------------------------------------------------------------------
(* AuthService.  Nothing the client sends names a role or a venue. *)
(* Slip: the address is stored the way it was typed. *)
Register_AsTyped(p) ==
  /\ account[p] = NoAccount
  /\ account' = [account EXCEPT ![p] = [role |-> "CUSTOMER", venue |-> NoVenue]]
  /\ token' = [token EXCEPT ![p] = [user |-> p, role |-> "CUSTOMER", venue |-> NoVenue]]
  /\ UNCHANGED <<settings, policies, rooms, equipment, bookings, patching, writer>>

(* users.email is UNIQUE; the loser of a race is told so. *)
Register(p) ==
  /\ account[Lower[p]] = NoAccount
  /\ account' = [account EXCEPT ![Lower[p]] = [role |-> "CUSTOMER", venue |-> NoVenue]]
  /\ token' = [token EXCEPT ![Lower[p]] = [user |-> Lower[p], role |-> "CUSTOMER", venue |-> NoVenue]]
  /\ UNCHANGED <<settings, policies, rooms, equipment, bookings, patching, writer>>

Login(p) ==
  /\ account[Lower[p]] # NoAccount
  /\ token' = [token EXCEPT ![Lower[p]] = Claims(Lower[p])]
  /\ UNCHANGED <<account, settings, policies, rooms, equipment, bookings, patching, writer>>

ExpireToken(p) ==
  /\ token[p] # NoToken
  /\ token' = [token EXCEPT ![p] = NoToken]
  /\ UNCHANGED <<account, settings, policies, rooms, equipment, bookings, patching, writer>>

-----------------------------------------------------------------------------
(* The routes, and what @Roles says of them. *)
BookingRoutes == {"list_bookings", "find_booking", "checkout", "cancel", "pay"}
EquipmentRoutes == {"list_equipment", "find_equipment"}
DeskRoutes == {"settings", "list_rooms", "revenue"}
OwnerRoutes == {"update_settings", "create_room", "update_room", "create_equipment",
                "update_equipment", "replace_policy"}
Routes == BookingRoutes \cup EquipmentRoutes \cup DeskRoutes \cup OwnerRoutes
            \cup {"hold", "current_policy", "reconciliation"}

RequiredRoles(route) ==
  CASE route \in OwnerRoutes                             -> {"VENUE_ADMIN"}
    [] route \in DeskRoutes                              -> Staff
    [] route \in EquipmentRoutes \cup {"current_policy"} -> Staff \cup {"PLATFORM_ADMIN"}
    [] route = "reconciliation"                          -> {"PLATFORM_ADMIN"}
    [] route \in BookingRoutes \cup {"hold"}             -> Roles

(* JwtAuthGuard, then RolesGuard; VenueScopeGuard refuses nobody. *)
Guards(p, route) ==
  CASE token[p] = NoToken                                              -> 401
    [] token[p] # NoToken /\ token[p].role \notin RequiredRoles(route) -> 403
    [] token[p] # NoToken /\ token[p].role \in RequiredRoles(route)    -> 200

-----------------------------------------------------------------------------
(* The tenant filters: what a WHERE clause leaves for the holder of a token. *)
OfVenue(table, v) == {x \in DOMAIN table : table[x] # Absent /\ table[x].venue = v}
Existing(table) == {x \in DOMAIN table : table[x] # Absent}

(* Slip: a token without a venue is taken for one without limits. *)
scopeFilter_NoVenueIsAll(t) ==
  IF t.venue = NoVenue /\ t.role # "CUSTOMER" THEN Existing(bookings)
  ELSE IF t.role \in Staff THEN OfVenue(bookings, t.venue)
  ELSE {b \in Existing(bookings) : bookings[b].user = t.user}

scopeFilter(t) ==
  CASE t.role = "PLATFORM_ADMIN" -> Existing(bookings)
    [] t.role \in Staff          -> OfVenue(bookings, t.venue)
    [] t.role = "CUSTOMER"       -> {b \in Existing(bookings) : bookings[b].user = t.user}

EquipmentScope(t) == IF t.role = "PLATFORM_ADMIN" THEN Existing(equipment)
                                                  ELSE OfVenue(equipment, t.venue)

(* Rows a route can select, tagged with their table. *)
Selected(t, route) ==
  CASE route \in BookingRoutes   -> {"booking"} \X scopeFilter(t)
    [] route = "reconciliation"  -> {"booking"} \X Existing(bookings)
    [] route = "revenue"         -> {"booking"} \X OfVenue(bookings, t.venue)
    [] route \in EquipmentRoutes -> {"equipment"} \X EquipmentScope(t)
    [] route = "update_equipment" -> {"equipment"} \X OfVenue(equipment, t.venue)
    [] route \in {"list_rooms", "update_room"} -> {"room"} \X OfVenue(rooms, t.venue)
    [] route \in {"settings", "update_settings", "replace_policy", "current_policy"}
         -> {"venue"} \X ({t.venue} \cap Venue)
    [] route \in {"create_room", "create_equipment", "hold"} -> {}

-----------------------------------------------------------------------------
(* VenuesAdminService and PoliciesService write to the venue on the token. *)
MayWrite(p, route) == Guards(p, route) = 200 /\ token[p].venue # NoVenue

By(p) == writer' = p

UpdateSettings(p, pct) ==
  /\ MayWrite(p, "update_settings") /\ pct <= MAX_BUFFER
  /\ settings' = [settings EXCEPT ![token[p].venue] = pct] /\ By(p)
  /\ UNCHANGED <<account, token, policies, rooms, equipment, bookings, patching>>

ReplacePolicy(p) ==
  /\ MayWrite(p, "replace_policy") /\ policies[token[p].venue] < MAX_POLICIES
  /\ policies' = [policies EXCEPT ![token[p].venue] = @ + 1] /\ By(p)
  /\ UNCHANGED <<account, token, settings, rooms, equipment, bookings, patching>>

(* The schema gives a bound the body leaves out its default, then compares. *)
CreateRoom(p, r, min, max) ==
  /\ MayWrite(p, "create_room") /\ rooms[r] = Absent /\ min <= max
  /\ rooms' = [rooms EXCEPT ![r] = [venue |-> token[p].venue, min |-> min, max |-> max]]
  /\ By(p)
  /\ UNCHANGED <<account, token, settings, policies, equipment, bookings, patching>>

(* What the row would hold: the bounds that were sent, the stored others. *)
Patched(row, to) == [f \in DOMAIN row |-> IF f \in DOMAIN to THEN to[f] ELSE row[f]]

(* Slip: only a body with both bounds is checked. *)
Coherent_BothSent(row, to) == {"min", "max"} \subseteq DOMAIN to => to["min"] <= to["max"]

Coherent(row, to) == Patched(row, to).min <= Patched(row, to).max

(* updateRoom: the read, and the check against what was read.  (A body with  *)
(* a buffer is refused before this, whatever the room.)                      *)
UpdateRoomRead(p, q, r, to) ==
  /\ patching[q] = NoPatch
  /\ MayWrite(p, "update_room") /\ r \in OfVenue(rooms, token[p].venue)
  /\ Coherent(rooms[r], to)
  /\ patching' = [patching EXCEPT ![q] =
       [room |-> r, by |-> token[p].user, to |-> to, read |-> rooms[r]]]
  /\ UNCHANGED <<account, token, settings, policies, rooms, equipment, bookings, writer>>

(* The write, of the bounds that were sent and under the same filter. *)
UpdateRoomWrite(q) ==
  LET patch == patching[q] IN
  /\ patch # NoPatch
  /\ patch.room \in OfVenue(rooms, patch.read.venue)
  /\ rooms' = [rooms EXCEPT ![patch.room] = Patched(@, patch.to)] /\ By(patch.by)
  /\ patching' = [patching EXCEPT ![q] = NoPatch]
  /\ UNCHANGED <<account, token, settings, policies, equipment, bookings>>

CreateEquipmentType(p, e, units) ==
  /\ MayWrite(p, "create_equipment") /\ equipment[e] = Absent
  /\ equipment' = [equipment EXCEPT ![e] = [venue |-> token[p].venue, units |-> units]]
  /\ By(p)
  /\ UNCHANGED <<account, token, settings, policies, rooms, bookings, patching>>

(* Slip: the id in the path is trusted. *)
UpdateEquipmentType_ById(p, e, units) ==
  /\ MayWrite(p, "update_equipment") /\ equipment[e] # Absent
  /\ equipment' = [equipment EXCEPT ![e].units = units] /\ By(p)
  /\ UNCHANGED <<account, token, settings, policies, rooms, bookings, patching>>

UpdateEquipmentType(p, e, units) ==
  /\ MayWrite(p, "update_equipment") /\ e \in OfVenue(equipment, token[p].venue)
  /\ equipment' = [equipment EXCEPT ![e].units = units] /\ By(p)
  /\ UNCHANGED <<account, token, settings, policies, rooms, bookings, patching>>

(* Slip: the equipment's venue is not compared with the room's. *)
SameVenue_AnyKnown(r, items) == items \subseteq Existing(equipment)

SameVenue(r, items) == items \subseteq OfVenue(equipment, rooms[r].venue)

(* A hold may be made at any venue; its venue is the room's. *)
Hold(p, b, r, items) ==
  /\ Guards(p, "hold") = 200
  /\ bookings[b] = Absent /\ rooms[r] # Absent /\ SameVenue(r, items)
  /\ bookings' = [bookings EXCEPT ![b] =
       [venue |-> rooms[r].venue, user |-> token[p].user, room |-> r, items |-> items]]
  /\ By(p)
  /\ UNCHANGED <<account, token, settings, policies, rooms, equipment, patching>>

AccessNext ==
  \/ \E p \in Person : Register(p) \/ Login(p) \/ ExpireToken(p) \/ ReplacePolicy(p)
  \/ \E p \in Person, pct \in Buffers : UpdateSettings(p, pct)
  \/ \E p \in Person, r \in RoomId, min, max \in Durations : CreateRoom(p, r, min, max)
  \/ \E p \in Person, q \in Request, r \in RoomId, to \in Bodies : UpdateRoomRead(p, q, r, to)
  \/ \E q \in Request : UpdateRoomWrite(q)
  \/ \E p \in Person, e \in EquipmentId, units \in Units :
       CreateEquipmentType(p, e, units) \/ UpdateEquipmentType(p, e, units)
  \/ \E p \in Person, b \in BookingId, r \in RoomId, items \in SUBSET EquipmentId :
       Hold(p, b, r, items)

AccessSpec == AccessInit /\ [][AccessNext]_vars

-----------------------------------------------------------------------------
VenueOf(row) == CASE row[1] = "booking"   -> bookings[row[2]].venue
                  [] row[1] = "equipment" -> equipment[row[2]].venue
                  [] row[1] = "room"      -> rooms[row[2]].venue
                  [] row[1] = "venue"     -> row[2]

(* What the users table, not the token, says a person may be shown. *)
Entitled(user, row) ==
  \/ account[user].role = "PLATFORM_ADMIN"
  \/ account[user].role \in Staff /\ account[user].venue = VenueOf(row)
  \/ account[user].role = "CUSTOMER" /\ row[1] = "booking" /\ bookings[row[2]].user = user

(* INV-6.  No route selects a row of another venue or of another customer,  *)
(* whoever calls it and however old the token is.                           *)
TenantIsolation ==
  \A p \in Person, route \in Routes :
    token[p] # NoToken /\ Guards(p, route) = 200 =>
      \A row \in Selected(token[p], route) : Entitled(token[p].user, row)

OwnedBy(v) == <<{<<r, rooms[r]>> : r \in OfVenue(rooms, v)},
                {<<e, equipment[e]>> : e \in OfVenue(equipment, v)}, settings[v], policies[v]>>

(* A venue's rooms, equipment, settings and policy are changed by requests  *)
(* of its own administrators and of nobody else (VenuesAdminService,         *)
(* PoliciesService), also when an update of a room lands after the token it  *)
(* was allowed by is gone.                                                   *)
WritesStayHome ==
  [][\A v \in Venue : OwnedBy(v)' # OwnedBy(v) =>
       /\ writer' \in Person
       /\ account[writer'].role = "VENUE_ADMIN" /\ account[writer'].venue = v]_vars

(* A room's durations cross only when two updates overlapped: the update     *)
(* that crosses them had read the bound it leaves alone as it no longer is   *)
(* (updateRoom).                                                             *)
CrossedOnlyByRace ==
  [][\A r \in RoomId :
       (rooms[r] # Absent /\ rooms[r].min <= rooms[r].max /\ rooms'[r].min > rooms'[r].max) =>
         \E q \in Request :
           /\ patching[q] # NoPatch /\ patching'[q] = NoPatch /\ patching[q].room = r
           /\ \E f \in {"min", "max"} \ DOMAIN patching[q].to : patching[q].read[f] # rooms[r][f]
    ]_vars

(* A booking, its room and everything rented with it are of one venue,      *)
(* whoever holds it and whatever was created in between.                    *)
HoldStaysInVenue ==
  \A b \in Existing(bookings) :
    /\ rooms[bookings[b].room].venue = bookings[b].venue
    /\ \A e \in bookings[b].items : equipment[e].venue = bookings[b].venue
=============================================================================
