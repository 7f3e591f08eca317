-------------------------- MODULE BookingLifecycle --------------------------
(***************************************************************************)
(* What the state machine promises the rest of the system, and nothing     *)
(* more: every booking starts unborn (DRAFT) and each step moves any       *)
(* number of bookings, each along one legal edge.  BookingService and      *)
(* PaymentFlow are shown to implement this specification.                  *)
(***************************************************************************)
EXTENDS BookingStates

CONSTANT Booking

VARIABLE status

Init == status = [b \in Booking |-> "DRAFT"]

(* One committed transaction: a batch of legal moves. *)
Move == /\ status' \in [Booking -> Statuses]
        /\ \A b \in Booking : \/ status'[b] = status[b]
                              \/ isLegalTransition(status[b], status'[b])

Spec == Init /\ [][Move]_status

=============================================================================
