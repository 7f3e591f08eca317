--------------------------- MODULE BookingStates ---------------------------
(***************************************************************************)
(* The booking state machine's vocabulary: the states of bookings.status,  *)
(* the legal moves between them and the states that occupy a room and its  *)
(* equipment.                                                              *)
(***************************************************************************)

Statuses == {"DRAFT", "HELD", "PENDING_PAYMENT", "CONFIRMED", "COMPLETED",
             "EXPIRED", "FAILED", "CANCELLED", "REFUNDED"}

(* The table of legal moves, as the set of its <<from, to>> pairs. *)
LEGAL_TRANSITIONS ==
  { <<"DRAFT", "HELD">>,
    <<"HELD", "PENDING_PAYMENT">>, <<"HELD", "EXPIRED">>, <<"HELD", "CANCELLED">>,
    <<"PENDING_PAYMENT", "CONFIRMED">>, <<"PENDING_PAYMENT", "FAILED">>,
    <<"PENDING_PAYMENT", "EXPIRED">>,
    <<"CONFIRMED", "CANCELLED">>, <<"CONFIRMED", "COMPLETED">>,
    <<"CANCELLED", "REFUNDED">> }

isLegalTransition(from, to) == <<from, to>> \in LEGAL_TRANSITIONS

(* The states the exclusion constraint and the equipment query look at. *)
ACTIVE == {"HELD", "PENDING_PAYMENT", "CONFIRMED"}

=============================================================================
