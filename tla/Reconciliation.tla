--------------------------- MODULE Reconciliation ---------------------------
(***************************************************************************)
(* The reconciliation report: the discrepancies an operator is shown, as   *)
(* sets of bookings computed from the API's own tables.  The report's      *)
(* window is the whole history and its grace period is over.  There is no  *)
(* double_capture: the unique idempotency key leaves one payments row per  *)
(* booking, which the payment variable of PaymentFlow has built in.        *)
(***************************************************************************)
EXTENDS PaymentFlow

Settled == {b \in Booking : payment[b].status # "NONE"}

capture_without_confirmation ==
  {b \in Settled : payment[b].status = "SUCCEEDED" /\ status[b] \notin {"CONFIRMED", "COMPLETED"}}

confirmation_without_capture ==
  {b \in Booking : /\ status[b] \in {"CONFIRMED", "COMPLETED"}
                   /\ payment[b].status \notin {"SUCCEEDED", "REFUNDED"}}

refund_without_capture ==
  {b \in Settled : /\ payment[b].status = "REFUNDED" \/ payment[b].refunded > 0
                   /\ \/ payment[b].charge = NONE
                      \/ "charge.succeeded" \notin applied[payment[b].charge]}

refund_initiated_not_settled ==
  {b \in Settled : /\ payment[b].refundKey /\ payment[b].refund = NONE
                   /\ payment[b].status # "REFUNDED"}

refund_accepted_not_settled ==
  {b \in Settled : payment[b].refund # NONE /\ payment[b].status # "REFUNDED"}

charge_accepted_not_settled ==
  {b \in Settled : payment[b].status = "PENDING" /\ payment[b].charge # NONE}

over_refunded == {b \in Settled : payment[b].refunded > Total(b)}

unmatched_delivery ==
  {charges[c].reference : c \in {x \in ChargeId : \E e \in Events : inbox[x][e] > 0}}

Reported ==
  UNION {capture_without_confirmation, confirmation_without_capture, refund_without_capture,
         refund_initiated_not_settled, refund_accepted_not_settled,
         charge_accepted_not_settled, over_refunded, unmatched_delivery}

(* Nothing about the booking is under way, at the API or at the provider. *)
Quiet(b) ==
  /\ ~cancelling[b] /\ instruction[b] = 0
  /\ \A r \in Request : caller[r] = NoCaller /\ http[r].at = "idle"
  /\ \A c \in Minted(charges) : charges[c].reference = b =>
       \A e \in Events : wire[c][e] = 0 /\ inbox[c][e] = 0

-----------------------------------------------------------------------------
(* Three of the report's classes say that money moved which should not      *)
(* have.  They stay empty at every instant, in the middle of a webhook      *)
(* storm too: the report never shows them for a reason of its own making.   *)
ImpossibleClassesEmpty ==
  confirmation_without_capture \cup refund_without_capture \cup over_refunded = {}

(* INV-5 as ARCHITECTURE.md has it, "Money is never silently lost": once    *)
(* all is quiet, captured money is behind a CONFIRMED booking, has been     *)
(* given back, or is on the report.                                         *)
MoneyNeverSilentlyLost ==
  \A b \in Booking : Captured(b) /\ Quiet(b) =>
    status[b] = "CONFIRMED" \/ ReturnedTo(b) # {} \/ b \in Reported

=============================================================================
