------------------------------ MODULE Reports ------------------------------
(***************************************************************************)
(* The venue's revenue report, over the same tables as the payment flow.   *)
(* A range of starting times selects a set of the venue's bookings, so the *)
(* sums take that set.  Each sum is a statement of its own in the code;    *)
(* here they read one state.                                               *)
(***************************************************************************)
EXTENDS PaymentFlow, Sums

(* The tables are finite: so many bookings are what a database holds. *)
ASSUME FiniteAssumption == IsFiniteSet(Booking)

(* Slip: every booking that was ever paid for counts. *)
Earning_EverConfirmed(range) == {b \in range : snapshot[b] # NoPolicy}

(* Bookings whose price is revenue. *)
Earning(range) == {b \in range : status[b] \in {"CONFIRMED", "COMPLETED"}}

gross(range) == SumOver([b \in range |-> Total(b)], Earning(range))

(* What payments says went back, whatever has become of the booking. *)
refunded(range) == SumOver([b \in range |-> payment[b].refunded], range)

net(range) == gross(range) - refunded(range)

-----------------------------------------------------------------------------
(* What the provider holds for these bookings, by its own ledger. *)
CapturedIn(range) == {b \in range : Captured(b)}
ReturnedIn(range) == UNION {ReturnedTo(b) : b \in range}

Kept(range) ==
  SumOver([b \in range |-> Total(b)], CapturedIn(range))
    - SumOver([d \in ReturnedIn(range) |-> refunds[d].amount], ReturnedIn(range))

(* The report never claims money that is not there: whatever the range, the *)
(* net revenue is at most what the provider has captured and not given      *)
(* back, also while refunds are on their way that no table shows yet.       *)
RevenueNeverOverstated == \A range \in SUBSET Booking : net(range) <= Kept(range)

=============================================================================
