---------------------------- MODULE PaymentFlow ----------------------------
(***************************************************************************)
(* Payments: the API's payments service and webhook processor, composed    *)
(* with the provider.  The API and the provider share nothing but HTTP:    *)
(* requests that may be lost before they arrive or answered to nobody, and *)
(* webhooks that may come twice, late, before the answer, or never.        *)
(*                                                                         *)
(* A database transaction is one step.  What a request or a worker does    *)
(* outside its transaction (the unlocked read of pay, the provider call,   *)
(* the refund that follows a commit) is a step of its own, and the process *)
(* may die before it.  A slot of Request is a provider call and the API    *)
(* request or worker that waits for its answer.                            *)
(***************************************************************************)
EXTENDS Paygate, BookingStates

CONSTANTS
  Booking,
  Price,      \* what a booking costs: [room |-> minor units, equipment |-> ...]
  Policy,     \* cancellation policies, each the set of its tiers' percentages
  POLL_LIMIT, \* how many payments one poll asks the provider about
  Together    \* bound: sets of bookings that may be made in one behaviour

(* chargeKey is derived from the booking, refundKey from the charge. *)
ASSUME KeyAssumption ==
  /\ ChargeKey = Booking /\ Reference = Booking /\ RefundKey = ChargeId
  /\ \A b \in Booking : Price[b] \in [room : Nat, equipment : Nat]
  /\ Policy # {}
  /\ \A p \in Policy : p # {} /\ p \subseteq [room : 0..100, equipment : 0..100]
  /\ POLL_LIMIT \in Nat \ {0}

VARIABLES
  status,       \* bookings.status
  lapsed,       \* expires_at has passed
  policy,       \* the venue's newest cancellation policy
  snapshot,     \* bookings.policy_snapshot
  payment,      \* the booking's row of payments
  applied,      \* payment_events: effects applied, by charge
  inbox,        \* webhook_deliveries not yet processed, by charge and event
  caller,       \* who waits in each slot
  cancelling,   \* a cancel request between its two transactions
  instruction   \* refund a worker is about to ask for after its commit

rows == <<status, lapsed, policy, snapshot, payment, applied, inbox>>
api  == <<rows, caller, cancelling, instruction>>
vars == <<provider, api>>

-----------------------------------------------------------------------------
Total(b) == Price[b].room + Price[b].equipment

(* The routes of the provider take an amount_minor of 1 or more, so that a  *)
(* booking which costs nothing never gets as far as a charge.               *)
ASSUME PriceAssumption == \A b \in Booking : Total(b) > 0 /\ 1..Total(b) \subseteq Amounts

(* computeRefund: each component on its own, rounded down. *)
computeRefund(b, tier) ==
  (Price[b].room * tier.room) \div 100 + (Price[b].equipment * tier.equipment) \div 100

NoPolicy == {}
NoCaller == [as |-> "none"]
Caller == [as : {"pay_read", "pay", "refund"}, booking : Booking, seen : Statuses]

NoPayment == [status |-> "NONE", charge |-> NONE, refundKey |-> FALSE,
              refund |-> NONE, refunded |-> 0]
Payment == [status : {"NONE", "PENDING", "SUCCEEDED", "FAILED", "REFUNDED"},
            charge : ChargeId \cup {NONE}, refundKey : BOOLEAN,
            refund : RefundId \cup {NONE}, refunded : Nat]

FlowTypeOK ==
  /\ ProviderTypeOK
  /\ status \in [Booking -> Statuses]
  /\ lapsed \in [Booking -> BOOLEAN]
  /\ policy \in Policy
  /\ snapshot \in [Booking -> Policy \cup {NoPolicy}]
  /\ payment \in [Booking -> Payment]
  /\ applied \in [ChargeId -> SUBSET Events]
  /\ inbox \in [ChargeId -> [Events -> Nat]]
  /\ caller \in [Request -> Caller \cup {NoCaller}]
  /\ cancelling \in [Booking -> BOOLEAN]
  /\ instruction \in [Booking -> Nat]

FlowInit ==
  /\ ProviderInit
  /\ status = [b \in Booking |-> "DRAFT"]
  /\ lapsed = [b \in Booking |-> FALSE]
  /\ policy \in Policy
  /\ snapshot = [b \in Booking |-> NoPolicy]
  /\ payment = [b \in Booking |-> NoPayment]
  /\ applied = [c \in ChargeId |-> {}]
  /\ inbox = NoWebhooks
  /\ caller = [r \in Request |-> NoCaller]
  /\ cancelling = [b \in Booking |-> FALSE]
  /\ instruction = [b \in Booking |-> 0]

-----------------------------------------------------------------------------
(* BookingStateMachine.transition; its audit row is not modelled. *)
Transition(b, to) ==
  /\ isLegalTransition(status[b], to)
  /\ status' = [status EXCEPT ![b] = to]

Hold(b) ==
  /\ status[b] = "DRAFT"
  /\ \E some \in Together : b \in some /\ {a \in Booking : status[a] # "DRAFT"} \subseteq some
  /\ Transition(b, "HELD")
  /\ UNCHANGED <<provider, lapsed, policy, snapshot, payment, applied, inbox,
                 caller, cancelling, instruction>>

Lapse(b) ==
  /\ status[b] \in {"HELD", "PENDING_PAYMENT"} /\ ~lapsed[b]
  /\ lapsed' = [lapsed EXCEPT ![b] = TRUE]
  /\ UNCHANGED <<provider, status, policy, snapshot, payment, applied, inbox,
                 caller, cancelling, instruction>>

(* A checkout that read the hold before it lapsed writes its new expiry now. *)
Rearm(b) ==
  /\ status[b] \in {"HELD", "PENDING_PAYMENT"} /\ lapsed[b]
  /\ lapsed' = [lapsed EXCEPT ![b] = FALSE]
  /\ UNCHANGED <<provider, status, policy, snapshot, payment, applied, inbox,
                 caller, cancelling, instruction>>

Expire(b) ==
  /\ status[b] = "HELD" /\ lapsed[b]
  /\ Transition(b, "EXPIRED")
  /\ UNCHANGED <<provider, lapsed, policy, snapshot, payment, applied, inbox,
                 caller, cancelling, instruction>>

ReplacePolicy(p) ==
  /\ p # policy
  /\ policy' = p
  /\ UNCHANGED <<provider, status, lapsed, snapshot, payment, applied, inbox,
                 caller, cancelling, instruction>>

-----------------------------------------------------------------------------
(* pay, up to its first write: reads without a lock.  A settled payment is  *)
(* replayed, a lapsed hold and any other state answer 409: no effect.       *)
PayRead(r, b) ==
  /\ caller[r] = NoCaller /\ http[r].at = "idle"
  /\ payment[b].status \in {"NONE", "PENDING"}
  /\ \/ status[b] = "HELD" /\ ~lapsed[b]
     \/ status[b] = "PENDING_PAYMENT"
  /\ caller' = [caller EXCEPT ![r] = [as |-> "pay_read", booking |-> b, seen |-> status[b]]]
  /\ UNCHANGED <<provider, rows, cancelling, instruction>>

RequestCharge(r, b) ==
  http' = [http EXCEPT ![r] = Posted("charge", b, [of |-> b, amount |-> Total(b)])]

(* Slip: the provider is called before the payments row is committed. *)
PayWrite_ChargeFirst(r) ==
  LET b == caller[r].booking IN
  /\ caller[r].as = "pay_read"
  /\ \/ /\ http[r].at = "idle"
        /\ RequestCharge(r, b)
        /\ UNCHANGED <<caller, status, payment>>
     \/ /\ http[r].at # "idle" /\ status[b] = caller[r].seen
        /\ payment' = [payment EXCEPT ![b].status = IF @ = "NONE" THEN "PENDING" ELSE @]
        /\ IF caller[r].seen = "HELD" THEN Transition(b, "PENDING_PAYMENT")
                                      ELSE UNCHANGED status
        /\ caller' = [caller EXCEPT ![r].as = "pay"]
        /\ UNCHANGED http
  /\ UNCHANGED <<charges, refunds, chargeClaim, refundClaim, wire, lapsed, policy, snapshot,
                 applied, inbox, cancelling, instruction>>

(* The rest of pay's transaction, committed before the provider is called:  *)
(* the payments row (ON CONFLICT DO NOTHING), then the move under the row   *)
(* lock, which rolls everything back if the booking has moved meanwhile.    *)
PayWrite(r) ==
  LET b == caller[r].booking IN
  /\ caller[r].as = "pay_read"
  /\ \/ /\ caller[r].seen = "HELD" /\ status[b] # "HELD"
        /\ caller' = [caller EXCEPT ![r] = NoCaller]
        /\ UNCHANGED <<http, status, payment>>
     \/ /\ caller[r].seen = "HELD" => status[b] = "HELD"
        /\ payment' = [payment EXCEPT ![b].status = IF @ = "NONE" THEN "PENDING" ELSE @]
        /\ IF caller[r].seen = "HELD" THEN Transition(b, "PENDING_PAYMENT")
                                      ELSE UNCHANGED status
        /\ caller' = [caller EXCEPT ![r].as = "pay"]
        /\ RequestCharge(r, b)
  /\ UNCHANGED <<charges, refunds, chargeClaim, refundClaim, wire, lapsed, policy, snapshot,
                 applied, inbox, cancelling, instruction>>

(* A 202 sets charge_id unless the webhook got there first; anything else   *)
(* is a 502 or 503 to the customer and leaves the row as it is.             *)
PayAnswered(r) ==
  LET b == caller[r].booking IN
  /\ caller[r].as = "pay" /\ http[r].at = "answered"
  /\ payment' = IF http[r].code = 202 /\ payment[b].charge = NONE
                  THEN [payment EXCEPT ![b].charge = http[r].id] ELSE payment
  /\ caller' = [caller EXCEPT ![r] = NoCaller]
  /\ http' = [http EXCEPT ![r] = Idle]
  /\ UNCHANGED <<charges, refunds, chargeClaim, refundClaim, wire, status, lapsed, policy,
                 snapshot, applied, inbox, cancelling, instruction>>

(* PAYGATE_TIMEOUT_MS runs out, or the replica that waits goes away.  The   *)
(* provider does not notice: the request is handled all the same.           *)
HangUp(r) ==
  /\ caller[r] # NoCaller
  /\ caller' = [caller EXCEPT ![r] = NoCaller]
  /\ UNCHANGED <<provider, rows, cancelling, instruction>>

(* An answer nobody waits for. *)
Forget(r) ==
  /\ caller[r] = NoCaller /\ http[r].at = "answered"
  /\ http' = [http EXCEPT ![r] = Idle]
  /\ UNCHANGED <<charges, refunds, chargeClaim, refundClaim, wire, api>>

-----------------------------------------------------------------------------
(* ingest: a delivery with a valid signature is queued; one whose signature *)
(* is corrupt is recorded as processed, and one that meets no live replica  *)
(* leaves no trace.  The provider sends neither again.                      *)
Ingest(c, e) ==
  /\ Send(c, e)
  /\ inbox' = [inbox EXCEPT ![c][e] = @ + 1]
  /\ UNCHANGED <<status, lapsed, policy, snapshot, payment, applied,
                 caller, cancelling, instruction>>

LoseDelivery(c, e) == Send(c, e) /\ UNCHANGED api

OwnerOf(c) == {b \in Booking : payment[b].charge = c}

(* Slip: a payment that waits for its charge id takes the first to come. *)
Adoptable_AnyPending(c) == {b \in Booking : payment[b].status = "PENDING" /\ payment[b].charge = NONE}

(* findPaymentByChargeId, then adoptChargeByReference. *)
Adoptable(c) == {b \in Booking : /\ b = charges[c].reference
                                 /\ payment[b].status # "NONE" /\ payment[b].charge = NONE}
PaymentFor(c) == IF OwnerOf(c) # {} THEN OwnerOf(c) ELSE Adoptable(c)

(* Slip: deliveries are told apart by their ids, which are always new. *)
Claimed_Never(c, e) == FALSE

(* The insert into payment_events finds a row already there. *)
Claimed(c, e) == e \in applied[c]

(* Slip: the lapsed booking is expired and the money is forgotten. *)
onChargeSucceeded_NoRefund(b, c) ==
  IF status[b] = "PENDING_PAYMENT" /\ ~lapsed[b]
  THEN /\ Transition(b, "CONFIRMED")
       /\ snapshot' = [snapshot EXCEPT ![b] = policy]
       /\ payment' = [payment EXCEPT ![b].status = "SUCCEEDED", ![b].charge = c]
       /\ UNCHANGED instruction
  ELSE /\ status' = [status EXCEPT ![b] = "EXPIRED"]
       /\ payment' = [payment EXCEPT ![b].status = "SUCCEEDED", ![b].charge = c]
       /\ UNCHANGED <<snapshot, instruction>>

(* The fork of INV-4: confirm a live hold, or give the money back. *)
onChargeSucceeded(b, c) ==
  IF status[b] = "PENDING_PAYMENT" /\ ~lapsed[b]
  THEN /\ Transition(b, "CONFIRMED")
       /\ snapshot' = [snapshot EXCEPT ![b] = policy]
       /\ payment' = [payment EXCEPT ![b].status = "SUCCEEDED", ![b].charge = c]
       /\ UNCHANGED instruction
  ELSE /\ status' = [status EXCEPT ![b] = IF @ = "PENDING_PAYMENT" THEN "EXPIRED" ELSE @]
       /\ payment' = [payment EXCEPT ![b].status = "SUCCEEDED", ![b].charge = c,
                                     ![b].refundKey = TRUE]
       /\ instruction' = [instruction EXCEPT ![b] = Total(b)]
       /\ UNCHANGED snapshot

(* Slip: a declined booking is cancelled, like any the customer gives up. *)
onChargeFailed_Cancels(b, c) ==
  /\ payment' = [payment EXCEPT ![b].status = "FAILED", ![b].charge = c]
  /\ status' = [status EXCEPT ![b] = "CANCELLED"]
  /\ UNCHANGED <<snapshot, instruction>>

onChargeFailed(b, c) ==
  /\ payment' = [payment EXCEPT ![b].status = "FAILED", ![b].charge = c]
  /\ IF status[b] = "PENDING_PAYMENT" THEN Transition(b, "FAILED")
                                      ELSE UNCHANGED status
  /\ UNCHANGED <<snapshot, instruction>>

RefundsOf(c) == {d \in Minted(refunds) : refunds[d].charge = c}

(* Slip: a settled refund is taken for a refund of the whole price. *)
RefundedMinor_InFull(b, d) == Total(b)

RefundedMinor(b, d) == refunds[d].amount

onRefundSucceeded(b, c) ==
  \E d \in RefundsOf(c) :
    /\ payment' = [payment EXCEPT ![b].status = "REFUNDED", ![b].charge = c, ![b].refund = d,
                                  ![b].refunded = RefundedMinor(b, d)]
    /\ IF status[b] = "CANCELLED" THEN Transition(b, "REFUNDED") ELSE UNCHANGED status
    /\ UNCHANGED <<snapshot, instruction>>

(* Slip: the effect is applied and its row of payment_events is not kept. *)
Effect_Unrecorded(b, c, e) ==
  /\ UNCHANGED applied
  /\ \/ e = "charge.succeeded" /\ onChargeSucceeded(b, c)
     \/ e = "charge.failed" /\ onChargeFailed(b, c)
     \/ e = "refund.succeeded" /\ onRefundSucceeded(b, c)

(* Everything behind the gate of payment_events. *)
Effect(b, c, e) ==
  /\ applied' = [applied EXCEPT ![c] = @ \cup {e}]
  /\ \/ e = "charge.succeeded" /\ onChargeSucceeded(b, c)
     \/ e = "charge.failed" /\ onChargeFailed(b, c)
     \/ e = "refund.succeeded" /\ onRefundSucceeded(b, c)

(* Slip: the delivery row is not read again under its lock, so that two     *)
(* replicas with the same batch both work it off.                           *)
ApplyDelivery_NoRecheck(c, e) ==
  /\ charges[c].materialised /\ e \in applied[c]
  /\ inbox' = [inbox EXCEPT ![c][e] = @ - 1]
  /\ UNCHANGED <<provider, status, snapshot, applied, instruction, payment,
                 lapsed, policy, caller, cancelling>>

(* applyInTransaction, by any replica, from the kick or from the drain; a   *)
(* delivery whose payment is not found stays in the queue.                  *)
ApplyDelivery(c, e) ==
  /\ inbox[c][e] > 0
  /\ \E b \in PaymentFor(c) :
       /\ inbox' = [inbox EXCEPT ![c][e] = @ - 1]
       /\ IF Claimed(c, e)
            THEN /\ payment' = [payment EXCEPT ![b].charge = c]
                 /\ UNCHANGED <<status, snapshot, applied, instruction>>
            ELSE Effect(b, c, e)
       /\ UNCHANGED <<provider, lapsed, policy, caller, cancelling>>

-----------------------------------------------------------------------------
(* Slip: only holds that are still live are asked about. *)
PollCharge_LiveOnly(b) ==
  LET c == payment[b].charge  s == charges[c].status IN
  /\ payment[b].status = "PENDING" /\ c # NONE /\ ~lapsed[b]
  /\ s \in {"succeeded", "failed"}
  /\ LET e == IF s = "succeeded" THEN "charge.succeeded" ELSE "charge.failed" IN
     ~Claimed(c, e) /\ Effect(b, c, e)
  /\ UNCHANGED <<provider, lapsed, policy, inbox, caller, cancelling>>

(* The pull half: settleAcceptedCharges asks about a PENDING payment with a *)
(* charge id, settleAcceptedRefunds about a refund id without settlement.   *)
PollCharge(b) ==
  LET c == payment[b].charge  s == charges[c].status IN
  /\ payment[b].status = "PENDING" /\ c # NONE
  /\ s \in {"succeeded", "failed"}
  /\ LET e == IF s = "succeeded" THEN "charge.succeeded" ELSE "charge.failed" IN
     ~Claimed(c, e) /\ Effect(b, c, e)
  /\ UNCHANGED <<provider, lapsed, policy, inbox, caller, cancelling>>

(* Slip: only bookings that were cancelled are asked about. *)
PollRefund_CancelledOnly(b) ==
  LET c == payment[b].charge IN
  /\ payment[b].refund # NONE /\ payment[b].status # "REFUNDED" /\ c # NONE
  /\ status[b] = "CANCELLED"
  /\ refunds[payment[b].refund].materialised
  /\ ~Claimed(c, "refund.succeeded") /\ Effect(b, c, "refund.succeeded")
  /\ UNCHANGED <<provider, lapsed, policy, inbox, caller, cancelling>>

PollRefund(b) ==
  LET c == payment[b].charge IN
  /\ payment[b].refund # NONE /\ payment[b].status # "REFUNDED" /\ c # NONE
  /\ refunds[payment[b].refund].materialised
  /\ ~Claimed(c, "refund.succeeded") /\ Effect(b, c, "refund.succeeded")
  /\ UNCHANGED <<provider, lapsed, policy, inbox, caller, cancelling>>

-----------------------------------------------------------------------------
(* Cancelling: the move commits first, the money follows. *)
Cancel(b) ==
  /\ status[b] \in {"HELD", "CONFIRMED"}
  /\ Transition(b, "CANCELLED")
  /\ cancelling' = [cancelling EXCEPT ![b] = TRUE]
  /\ UNCHANGED <<provider, lapsed, policy, snapshot, payment, applied, inbox,
                 caller, instruction>>

(* Slip: the refund is worked out from the policy in force today. *)
TermsFor_Live(b) == policy

TermsFor(b) == snapshot[b]

(* settleCancellation: nothing captured, or a refund already begun, ends it;*)
(* the tier depends on the hour, and a refund of nothing is never asked for.*)
SettleCancellation(b) ==
  /\ cancelling[b]
  /\ cancelling' = [cancelling EXCEPT ![b] = FALSE]
  /\ IF /\ payment[b].status = "SUCCEEDED" /\ payment[b].charge # NONE
        /\ ~payment[b].refundKey /\ TermsFor(b) # NoPolicy
       THEN /\ payment' = [payment EXCEPT ![b].refundKey = TRUE]
            /\ \E tier \in TermsFor(b) :
                 instruction' = [instruction EXCEPT ![b] = computeRefund(b, tier)]
       ELSE UNCHANGED <<payment, instruction>>
  /\ UNCHANGED <<provider, status, lapsed, policy, snapshot, applied, inbox, caller>>

(* settleRefund: the provider call after the commit. *)
IssueRefund(r, b) ==
  LET c == payment[b].charge IN
  /\ instruction[b] > 0
  /\ caller[r] = NoCaller /\ http[r].at = "idle"
  /\ http' = [http EXCEPT ![r] = Posted("refund", c, [of |-> c, amount |-> instruction[b]])]
  /\ caller' = [caller EXCEPT ![r] = [as |-> "refund", booking |-> b, seen |-> status[b]]]
  /\ instruction' = [instruction EXCEPT ![b] = 0]
  /\ UNCHANGED <<charges, refunds, chargeClaim, refundClaim, wire, rows, cancelling>>

(* A 202 sets refund_id; a rejection is only written down. *)
RefundAnswered(r) ==
  LET b == caller[r].booking IN
  /\ caller[r].as = "refund" /\ http[r].at = "answered"
  /\ payment' = IF http[r].code = 202 /\ payment[b].refund = NONE
                  THEN [payment EXCEPT ![b].refund = http[r].id] ELSE payment
  /\ caller' = [caller EXCEPT ![r] = NoCaller]
  /\ http' = [http EXCEPT ![r] = Idle]
  /\ UNCHANGED <<charges, refunds, chargeClaim, refundClaim, wire, status, lapsed, policy,
                 snapshot, applied, inbox, cancelling, instruction>>

(* The replica dies between a commit and what it was to do next. *)
ReplicaDies(b) ==
  /\ cancelling[b] \/ instruction[b] > 0
  /\ cancelling' = [cancelling EXCEPT ![b] = FALSE]
  /\ instruction' = [instruction EXCEPT ![b] = 0]
  /\ UNCHANGED <<provider, rows, caller>>

-----------------------------------------------------------------------------
ProviderStep == /\ \/ \E r \in Request : Handle(r) \/ Drop(r)
                   \/ Restart
                /\ UNCHANGED api

FlowNext ==
  \/ \E b \in Booking : \/ Hold(b) \/ Lapse(b) \/ Rearm(b) \/ Expire(b) \/ Cancel(b)
                        \/ SettleCancellation(b) \/ ReplicaDies(b)
                        \/ PollCharge(b) \/ PollRefund(b)
  \/ \E p \in Policy : ReplacePolicy(p)
  \/ \E r \in Request : \/ \E b \in Booking : PayRead(r, b) \/ IssueRefund(r, b)
                        \/ PayWrite(r) \/ PayAnswered(r) \/ RefundAnswered(r)
                        \/ HangUp(r) \/ Forget(r)
  \/ \E c \in ChargeId, e \in Events :
       Ingest(c, e) \/ LoseDelivery(c, e) \/ ApplyDelivery(c, e)
  \/ ProviderStep

FlowSpec == FlowInit /\ [][FlowNext]_vars

(* What a poll selects from, settled by the provider or not: a payment whose *)
(* charge or refund never gets an outcome is never out of it.               *)
ChargesWaiting == {b \in Booking : payment[b].status = "PENDING" /\ payment[b].charge # NONE}
RefundsWaiting == {b \in Booking : payment[b].refund # NONE /\ payment[b].status # "REFUNDED"}

(* More than a poll takes, and nothing says which of them it takes.         *)
ChargesCrowded == Cardinality(ChargesWaiting) > POLL_LIMIT
RefundsCrowded == Cardinality(RefundsWaiting) > POLL_LIMIT

(* What the code's scheduling gives: the polls run on a timer in every      *)
(* replica, and reach every payment that waits as long as those that wait   *)
(* fit into one batch (a payment waits for one of them at a time).  Nothing *)
(* makes a webhook arrive, a request come to its end or a customer come     *)
(* back.                                                                    *)
FlowFairness ==
  \A b \in Booking : WF_vars(\/ PollCharge(b) /\ ~ChargesCrowded
                             \/ PollRefund(b) /\ ~RefundsCrowded)

FairFlowSpec == FlowSpec /\ FlowFairness

-----------------------------------------------------------------------------
(* A payment's charge, as the ledger has it. *)
Captured(b) == /\ chargeClaim[b].charge # NONE
               /\ charges[chargeClaim[b].charge].status = "succeeded"
ReturnedTo(b) == {d \in Minted(refunds) : charges[refunds[d].charge].reference = b}

(* INV-4 and the mirror of it: a CONFIRMED booking is paid for, by a charge *)
(* the provider captured, and nothing has gone back or is about to,         *)
(* although deliveries repeat and polls and workers race.                   *)
ConfirmedIsPaid ==
  \A b \in Booking : status[b] = "CONFIRMED" =>
    /\ payment[b].status = "SUCCEEDED" /\ Captured(b)
    /\ ~payment[b].refundKey /\ instruction[b] = 0 /\ ReturnedTo(b) = {}

(* INV-5 as far as the API can see: money it knows was captured is behind a *)
(* CONFIRMED booking, or is being given back under a persisted key, or      *)
(* belongs to a booking that was cancelled after it had been confirmed.     *)
CaptureAccounted ==
  \A b \in Booking : payment[b].status = "SUCCEEDED" =>
    \/ status[b] = "CONFIRMED"
    \/ payment[b].refundKey
    \/ status[b] = "CANCELLED" /\ snapshot[b] # NoPolicy

(* The API's books never contradict the ledger: an outcome it has recorded  *)
(* is the provider's, the charge id is that of the booking's own charge,    *)
(* and a refund it calls settled went back, to the minor unit.              *)
BooksAgree ==
  \A b \in Booking :
    /\ payment[b].charge \in {NONE, chargeClaim[b].charge}
    /\ payment[b].status \in {"SUCCEEDED", "REFUNDED"} => Captured(b)
    /\ payment[b].status = "FAILED" => charges[payment[b].charge].status = "failed"
    /\ payment[b].status = "REFUNDED" =>
         /\ refunds[payment[b].refund].materialised
         /\ {payment[b].refund} = ReturnedTo(b)
         /\ payment[b].refunded = refunds[payment[b].refund].amount

(* The customer is refunded by the terms frozen when the booking was        *)
(* confirmed, whatever the venue has changed since, and a capture that      *)
(* confirmed nothing is refunded in full.                                   *)
RefundByAgreedTerms ==
  \A b \in Booking : \A d \in ReturnedTo(b) :
    refunds[d].amount \in IF snapshot[b] = NoPolicy THEN {Total(b)}
                          ELSE {computeRefund(b, tier) : tier \in snapshot[b]}

(* The payments row is committed before the provider hears of the charge,   *)
(* so a delivery, however early, always finds the payment it is about.      *)
DeliveriesMatch ==
  \A c \in ChargeId : (\E e \in Events : inbox[c][e] > 0) => PaymentFor(c) # {}

(* Every step of the payment path moves bookings along legal edges only. *)
Lifecycle == INSTANCE BookingLifecycle
FlowIsLegal == Lifecycle!Spec

(* A charge whose id is recorded is settled here once the provider has      *)
(* settled it, even if every webhook about it is lost, unless more payments *)
(* wait than a poll takes: those that will never be settled stay among them.*)
ChargeSettles ==
  \A b \in Booking :
    (payment[b].charge # NONE /\ charges[payment[b].charge].materialised)
      ~> (payment[b].status \in {"SUCCEEDED", "FAILED", "REFUNDED"} \/ ChargesCrowded)

(* A refund whose id is recorded is settled here once the provider has      *)
(* settled it, even if every webhook about it is lost, with the same        *)
(* exception.                                                               *)
RefundSettles ==
  \A b \in Booking : (payment[b].refund # NONE /\ refunds[payment[b].refund].materialised)
                       ~> (payment[b].status = "REFUNDED" \/ RefundsCrowded)

=============================================================================
