------------------------------ MODULE Pricing ------------------------------
(***************************************************************************)
(* What a booking costs and what a cancellation gives back, each computed  *)
(* twice: by the API, whose number counts, and by the console, which shows *)
(* a number before the customer decides.  Pure functions of the half hours *)
(* booked, the rates and quantities of the line items, and a policy.       *)
(***************************************************************************)
EXTENDS Sums, Sequences

(* A line item is billed by the half hour, the division coming last. *)
lineTotal(halfHours, item) == (halfHours * item.rate * item.quantity) \div 2

EquipmentTotal(halfHours, items) ==
  SumOver([i \in DOMAIN items |-> lineTotal(halfHours, items[i])], DOMAIN items)

(* The hold path's price. *)
totalMinor(halfHours, hourlyRate, items) ==
  (hourlyRate * halfHours) \div 2 + EquipmentTotal(halfHours, items)

(* Slip: whole hours, and the half hour at the end for nothing. *)
estimate_WholeHours(halfHours, hourlyRate, items) ==
  (halfHours \div 2) * (hourlyRate
     + SumOver([i \in DOMAIN items |-> items[i].rate * items[i].quantity], DOMAIN items))

(* The booking panel's estimate. *)
estimate(halfHours, hourlyRate, items) ==
  (halfHours * hourlyRate) \div 2
    + SumOver([i \in DOMAIN items |-> (halfHours * items[i].rate * items[i].quantity) \div 2],
              DOMAIN items)

-----------------------------------------------------------------------------
(* TiersSchema: strictly descending, and the last tier takes everyone. *)
ValidTiers(tiers) ==
  /\ tiers \in Seq([minHours : Nat, room : 0..100, equipment : 0..100])
  /\ Len(tiers) > 0 /\ tiers[Len(tiers)].minHours = 0
  /\ \A i \in 1..(Len(tiers) - 1) : tiers[i].minHours > tiers[i + 1].minHours

First(S) == CHOOSE i \in S : \A j \in S : i <= j

(* Slip: a lead time of exactly the threshold does not reach the tier. *)
selectTier_Exclusive(tiers, hoursBefore) ==
  tiers[First({i \in DOMAIN tiers : hoursBefore > tiers[i].minHours \/ i = Len(tiers)})]

(* The first tier whose threshold the lead time clears. *)
selectTier(tiers, hoursBefore) ==
  tiers[First({i \in DOMAIN tiers : hoursBefore >= tiers[i].minHours})]

(* Cancelling after the start is cancelling with no lead at all. *)
HoursBefore(startsAt, at) == IF startsAt > at THEN startsAt - at ELSE 0

(* The room's share is what the line items leave of the total. *)
splitTotals(b) ==
  LET equipment == EquipmentTotal(b.halfHours, b.items)
      room == b.total - equipment IN
  [room |-> IF room < 0 THEN 0 ELSE room, equipment |-> equipment]

(* The API's refund: each component on its own, rounded down. *)
computeRefund(b, startsAt, at) ==
  LET tier == selectTier(b.terms, HoursBefore(startsAt, at))
      split == splitTotals(b) IN
  (split.room * tier.room) \div 100 + (split.equipment * tier.equipment) \div 100

(* The console's preview of it, from the copy of the booking on the screen; *)
(* nothing to quote without frozen terms.                                   *)
previewRefund(b, startsAt, at) ==
  IF b.terms = <<>> THEN {}
  ELSE LET hoursBefore == IF startsAt - at < 0 THEN 0 ELSE startsAt - at
           tier == b.terms[First({i \in DOMAIN b.terms : hoursBefore >= b.terms[i].minHours})]
           equipment == EquipmentTotal(b.halfHours, b.items)
           room == IF b.total < equipment THEN 0 ELSE b.total - equipment IN
       {(room * tier.room) \div 100 + (equipment * tier.equipment) \div 100}

=============================================================================
