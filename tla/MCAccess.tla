------------------------------ MODULE MCAccess ------------------------------
(***************************************************************************)
(* Two venues.  One has an administrator, the other a member of staff who  *)
(* still holds a token without the venue; a customer may register under    *)
(* either spelling of one address.  The first venue starts with nothing.   *)
(***************************************************************************)
EXTENDS Access, TLC

CONSTANTS admin, desk, platform, bob, BOB, v1, v2, r1, r2, e1, e2

MCLower == [p \in Person |-> IF p = BOB THEN bob ELSE p]
MCSeeded == admin :> [role |-> "VENUE_ADMIN", venue |-> v1]
         @@ desk :> [role |-> "VENUE_STAFF", venue |-> v2]
         @@ platform :> [role |-> "PLATFORM_ADMIN", venue |-> NoVenue]
MCRooms == r2 :> [venue |-> v2, min |-> 1, max |-> 2]
MCEquipment == e2 :> [venue |-> v2, units |-> 1]

(* Bound: how much happens beside what the two updates of a room do. *)
MCBound == Cardinality({q \in Request : patching[q] # NoPatch} \cup {v \in Venue : settings[v] > 0}
             \cup {b \in BookingId : bookings[b] # Absent} \cup {e \in {e1} : equipment[e] # Absent})
           + policies[v1] <= 2

MCSymmetry == Permutations(Request)
=============================================================================
