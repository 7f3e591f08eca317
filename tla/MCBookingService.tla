-------------------------- MODULE MCBookingService --------------------------
(***************************************************************************)
(* Small instances of BookingService.                                      *)
(*                                                                         *)
(* Contention: b1 and b3 want room 1 back to back, with no time to clean   *)
(* it in between, b2 wants room 2 across the handover, and there is one    *)
(* unit of each equipment type; b1 and b2 compete for both, b3 for none.   *)
(*                                                                         *)
(* Fleet: ten units of one type; b1 in room 1 wants six, b2 in room 2      *)
(* eleven across its end: b2 fits under a 10% buffer only, never with b1.  *)
(***************************************************************************)
EXTENDS BookingService, TLC

CONSTANTS b1, b2, b3

TwoRooms == b1 :> 1 @@ b2 :> 2 @@ b3 :> 1
Starts == b1 :> 0 @@ b2 :> 1 @@ b3 :> 2
Ends == b1 :> 2 @@ b2 :> 3 @@ b3 :> 4

ContentionQuantity == b1 :> <<1, 1>> @@ b2 :> <<1, 1>> @@ b3 :> <<0, 0>>
ContentionUnits == <<1, 1>>

FleetQuantity == b1 :> <<6>> @@ b2 :> <<11>> @@ b3 :> <<0>>
FleetUnits == <<10>>

(* The requests of a run: b3's parameters are there only if b3 is. *)
MCRoomOf == [b \in Booking |-> TwoRooms[b]]
MCStartsAt == [b \in Booking |-> Starts[b]]
MCEndsAt == [b \in Booking |-> Ends[b]]
MCContentionQuantity == [b \in Booking |-> ContentionQuantity[b]]
MCRowOrder == [b \in Booking |-> 1]
MCFleetQuantity == [b \in Booking |-> FleetQuantity[b]]
=============================================================================
