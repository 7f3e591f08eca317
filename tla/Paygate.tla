------------------------------ MODULE Paygate ------------------------------
(***************************************************************************)
(* The payment provider: a durable ledger of charges and refunds behind an *)
(* idempotency table, HTTP requests handled concurrently, webhooks         *)
(* scheduled once per outcome (some twice, some lost), and restarts that   *)
(* lose every timer and every handler in progress.                         *)
(*                                                                         *)
(* A handler is a sequence of ledger transactions with awaits in between,  *)
(* so each transaction is a step of its own.  A request is a slot: it is   *)
(* posted, may be part way through its handler, and ends answered.         *)
(***************************************************************************)
EXTENDS Integers, FiniteSets

CONSTANTS
  Request,              \* HTTP requests that may be under way at once
  ChargeKey, RefundKey, \* Idempotency-Key values of the two scopes
  Reference,            \* what a charge refers to: the caller's booking ids
  ChargeId, RefundId,   \* ids the rows of the ledger have: numbers from 1
  SeedId,               \* the ids of charges that an import brings
  Amounts,              \* amount_minor of the requests
  DECLINE_AMOUNT,       \* the one amount that is declined
  MAX_DELIVERIES        \* webhooks an outcome is announced with, at most

VARIABLES
  http,          \* the request in each slot and how far its handler has got
  charges,       \* paygate_charges, by id
  refunds,       \* paygate_refunds, by id
  chargeClaim,   \* paygate_idempotency, scope charge
  refundClaim,   \* paygate_idempotency, scope refund
  wire           \* webhooks scheduled or being sent, by charge and event

provider == <<http, charges, refunds, chargeClaim, refundClaim, wire>>

NONE == 0
Events == {"charge.succeeded", "charge.failed", "refund.succeeded"}

ASSUME LedgerAssumption ==
  /\ ChargeId \subseteq Nat \ {0} /\ RefundId \subseteq Nat \ {0}
  /\ SeedId \subseteq ChargeId /\ IsFiniteSet(RefundId)
  /\ Amounts \subseteq Nat \ {0} /\ DECLINE_AMOUNT \in Nat
  /\ MAX_DELIVERIES \in Nat \ {0}

(* amount_minor, and the reference (a charge) or charge id (a refund). *)
Body == [of : Reference \cup ChargeId, amount : Amounts]
NoBody == [of |-> NONE, amount |-> 0]

(* Codes: 202 accepted, 500 failed inside, 4xx refused, 0 no answer yet and *)
(* 503 no answer at all, which is how the caller sees a lost connection.    *)
Codes == {0, 202, 404, 409, 422, 500, 503}

Call == [at : {"idle", "posted", "recovering", "opened", "answered"},
         op : {"charge", "refund"}, key : ChargeKey \cup RefundKey, body : Body,
         id : Nat, code : Codes]

Idle == [at |-> "idle"]

Charge == [key : ChargeKey, reference : Reference, amount : Amounts,
           status : {"processing", "succeeded", "failed"},
           materialised : BOOLEAN, refunded : Nat]

Refund == [charge : ChargeId, amount : Amounts, materialised : BOOLEAN]

Unused == [status |-> "unused", materialised |-> FALSE]

ProviderTypeOK ==
  /\ http \in [Request -> Call \cup {Idle}]
  /\ charges \in [ChargeId -> Charge \cup {Unused}]
  /\ refunds \in [RefundId -> Refund \cup {Unused}]
  /\ chargeClaim \in [ChargeKey -> [charge : ChargeId \cup {NONE}, body : Body \cup {NoBody},
                                    outcome : {"accepted", "failed_500", "none"}]]
  /\ refundClaim \in [RefundKey -> [refund : RefundId \cup {NONE}, body : Body \cup {NoBody},
                                    row : {"none", "void", "refund"}]]
  /\ wire \in [ChargeId -> [Events -> Nat]]

Unclaimed == [charge |-> NONE, body |-> NoBody, outcome |-> "none"]
NoRefund == [refund |-> NONE, body |-> NoBody, row |-> "none"]
NoWebhooks == [c \in ChargeId |-> [e \in Events |-> 0]]

ProviderInit ==
  /\ http = [r \in Request |-> Idle]
  /\ charges = [c \in ChargeId |-> Unused]
  /\ refunds = [d \in RefundId |-> Unused]
  /\ chargeClaim = [k \in ChargeKey |-> Unclaimed]
  /\ refundClaim = [k \in RefundKey |-> NoRefund]
  /\ wire = NoWebhooks

-----------------------------------------------------------------------------
(* Ids are random in the code: which one is drawn does not matter, as long  *)
(* as no row has it and no import brings it.  There are only so many here.  *)
Minted(table) == {i \in DOMAIN table : table[i] # Unused}
FreshCharges == ChargeId \ (SeedId \cup Minted(charges))
FreshRefunds == RefundId \ Minted(refunds)
NextId(fresh) == CHOOSE i \in fresh : TRUE

(* A request reaches its slot; a caller sees nothing until it is answered. *)
Posted(op, key, body) ==
  [at |-> "posted", op |-> op, key |-> key, body |-> body, id |-> NONE, code |-> 0]

Answer(r, code, id) ==
  http' = [http EXCEPT ![r] = [@ EXCEPT !.at = "answered", !.code = code, !.id = id]]

(* A handler goes on with the row it has found or made. *)
Proceed(r, at, id) == http' = [http EXCEPT ![r] = [@ EXCEPT !.at = at, !.id = id]]

(* dispatch: one webhook for an outcome, or two; the delays differ, so that *)
(* either may be sent before or long after the answer to the request.       *)
Dispatch(c, e) ==
  \E n \in 1..MAX_DELIVERIES :
    wire' = [wire EXCEPT ![c][e] = @ + n]

(* paygate_charges.idempotency_key is UNIQUE.  A charge without a claim is   *)
(* one whose import has not come to its claims: the insert then fails, and   *)
(* the transaction with it.                                                  *)
KeyTaken(k) == \E c \in Minted(charges) : charges[c].key = k

(* Slip: a key whose first attempt failed is taken for a new one. *)
OpenCharge_RetryIsNew(r) ==
  LET k == http[r].key body == http[r].body IN
  /\ http[r].at = "posted" /\ http[r].op = "charge"
  /\ IF chargeClaim[k].outcome = "accepted"
       THEN /\ Answer(r, 202, chargeClaim[k].charge)
            /\ UNCHANGED <<charges, chargeClaim>>
       ELSE \E fails \in BOOLEAN :
              LET c == NextId(ChargeId \ Minted(charges)) IN
              /\ charges' = [charges EXCEPT ![c] =
                   [key |-> k, reference |-> body.of, amount |-> body.amount,
                    status |-> "processing", materialised |-> FALSE, refunded |-> 0]]
              /\ chargeClaim' = [chargeClaim EXCEPT ![k] =
                   [charge |-> c, body |-> body,
                    outcome |-> IF fails THEN "failed_500" ELSE "accepted"]]
              /\ IF fails THEN Answer(r, 500, NONE)
                 ELSE Proceed(r, "opened", c)
  /\ UNCHANGED <<refunds, refundClaim, wire>>

(* ledger.openCharge, one transaction: the claim decides, and with it the    *)
(* charge row.  The transient failure of the chaos plan answers 500 to the   *)
(* first request that carries a key, after the claim is committed.           *)
OpenCharge(r) ==
  LET k == http[r].key  body == http[r].body  claim == chargeClaim[http[r].key] IN
  /\ http[r].at = "posted" /\ http[r].op = "charge"
  /\ \/ /\ claim.charge # NONE /\ claim.body # body
        /\ Answer(r, 409, NONE)
        /\ UNCHANGED <<charges, chargeClaim>>
     \/ /\ claim.charge # NONE /\ claim.body = body
        /\ IF claim.outcome = "failed_500"
             THEN Proceed(r, "recovering", claim.charge)
             ELSE Answer(r, 202, claim.charge)
        /\ UNCHANGED <<charges, chargeClaim>>
     \/ /\ claim.charge = NONE /\ KeyTaken(k)
        /\ Answer(r, 500, NONE)
        /\ UNCHANGED <<charges, chargeClaim>>
     \/ /\ claim.charge = NONE /\ ~KeyTaken(k) /\ FreshCharges # {}
        /\ \E fails \in BOOLEAN :
             LET c == NextId(FreshCharges) IN
             /\ charges' = [charges EXCEPT ![c] =
                  [key |-> k, reference |-> body.of, amount |-> body.amount,
                   status |-> "processing", materialised |-> FALSE, refunded |-> 0]]
             /\ chargeClaim' = [chargeClaim EXCEPT ![k] =
                  [charge |-> c, body |-> body,
                   outcome |-> IF fails THEN "failed_500" ELSE "accepted"]]
             /\ IF fails THEN Answer(r, 500, NONE)
                ELSE Proceed(r, "opened", c)
  /\ UNCHANGED <<refunds, refundClaim, wire>>

(* recoverFromTransientFailure: the claim is good from now on. *)
RecoverCharge(r) ==
  /\ http[r].at = "recovering"
  /\ chargeClaim' = [chargeClaim EXCEPT ![http[r].key].outcome = "accepted"]
  /\ Proceed(r, "opened", http[r].id)
  /\ UNCHANGED <<charges, refunds, refundClaim, wire>>

(* Slip: the handler's own copy of materialised is trusted, and it is stale. *)
MaterialiseCharge_Stale(r) ==
  LET c == http[r].id
      status == IF charges[c].amount = DECLINE_AMOUNT THEN "failed" ELSE "succeeded" IN
  /\ http[r].at = "opened" /\ http[r].op = "charge"
  /\ charges' = [charges EXCEPT ![c] = [@ EXCEPT !.materialised = TRUE, !.status = status]]
  /\ Dispatch(c, IF status = "failed" THEN "charge.failed" ELSE "charge.succeeded")
  /\ Answer(r, 202, c)
  /\ UNCHANGED <<refunds, chargeClaim, refundClaim>>

(* UPDATE ... WHERE materialised = false, and the webhooks if it hit a row. *)
MaterialiseCharge(r) ==
  LET c == http[r].id
      status == IF charges[c].amount = DECLINE_AMOUNT THEN "failed" ELSE "succeeded" IN
  /\ http[r].at = "opened" /\ http[r].op = "charge"
  /\ IF charges[c].materialised
       THEN UNCHANGED <<charges, wire>>
       ELSE /\ charges' = [charges EXCEPT ![c] = [@ EXCEPT !.materialised = TRUE, !.status = status]]
            /\ Dispatch(c, IF status = "failed" THEN "charge.failed" ELSE "charge.succeeded")
  /\ Answer(r, 202, c)
  /\ UNCHANGED <<refunds, chargeClaim, refundClaim>>

-----------------------------------------------------------------------------
(* Slip: what other refunds have already taken is not counted. *)
Exceeds_FirstRefundOnly(c, amount) == amount > charges[c].amount

Exceeds(c, amount) == charges[c].refunded + amount > charges[c].amount

Refundable(c) == charges[c].status = "succeeded"

(* What a refund of a charge is answered; 202 if it can be made. *)
RefundVerdict(c, amount) ==
  CASE ~charges[c].materialised                  -> 404
    [] charges[c].materialised /\ ~Refundable(c) -> 409
    [] Refundable(c) /\ Exceeds(c, amount)       -> 422
    [] Refundable(c) /\ ~Exceeds(c, amount)      -> 202

(* The key is known: a replay, another body, or a refund that was refused. *)
ReplayRefund(r) ==
  LET claim == refundClaim[http[r].key] IN
  /\ claim.row # "none"
  /\ IF claim.body # http[r].body THEN Answer(r, 409, NONE)
     ELSE IF claim.row = "void" THEN Answer(r, 500, NONE)
     ELSE Answer(r, 202, claim.refund)
  /\ UNCHANGED <<charges, refunds, refundClaim>>

(* The claim, the refund row and refunded_minor, all together. *)
TakeRefund(r) ==
  LET k == http[r].key  body == http[r].body  d == NextId(FreshRefunds) IN
  /\ FreshRefunds # {}
  /\ refunds' = [refunds EXCEPT ![d] =
       [charge |-> body.of, amount |-> body.amount, materialised |-> FALSE]]
  /\ refundClaim' = [refundClaim EXCEPT ![k] = [refund |-> d, body |-> body, row |-> "refund"]]
  /\ Proceed(r, "opened", d)
  /\ charges' = [charges EXCEPT ![body.of].refunded = @ + body.amount]

(* Refusing a refund returns from the transaction, which commits: the claim *)
(* stays, and names a refund that does not exist.                           *)
Refuse(r, code) ==
  /\ Answer(r, code, NONE)
  /\ refundClaim' = [refundClaim EXCEPT ![http[r].key] =
                       [refund |-> NONE, body |-> http[r].body, row |-> "void"]]
  /\ UNCHANGED <<charges, refunds>>

(* ledger.openRefund, one transaction with the charge row locked. *)
OpenRefund(r) ==
  LET verdict == RefundVerdict(http[r].body.of, http[r].body.amount) IN
  /\ http[r].at = "posted" /\ http[r].op = "refund"
  /\ \/ ReplayRefund(r)
     \/ /\ refundClaim[http[r].key].row = "none"
        /\ IF verdict = 202 THEN TakeRefund(r) ELSE Refuse(r, verdict)
  /\ UNCHANGED <<chargeClaim, wire>>

MaterialiseRefund(r) ==
  LET d == http[r].id IN
  /\ http[r].at = "opened" /\ http[r].op = "refund"
  /\ IF refunds[d].materialised
       THEN UNCHANGED <<refunds, wire>>
       ELSE /\ refunds' = [refunds EXCEPT ![d].materialised = TRUE]
            /\ Dispatch(refunds[d].charge, "refund.succeeded")
  /\ Answer(r, 202, d)
  /\ UNCHANGED <<charges, chargeClaim, refundClaim>>

-----------------------------------------------------------------------------
(* Slip: an attempt is made for a timer that is gone. *)
Send_Unscheduled(c, e) == /\ charges[c].materialised
                          /\ wire' = [wire EXCEPT ![c][e] = @ - 1]
                          /\ UNCHANGED <<http, charges, refunds, chargeClaim, refundClaim>>

(* deliver: one attempt, never repeated.  What becomes of it is up to the   *)
(* receiver; a corrupted signature or an unreachable callback ends here.    *)
Send(c, e) == /\ wire[c][e] > 0
              /\ wire' = [wire EXCEPT ![c][e] = @ - 1]
              /\ UNCHANGED <<http, charges, refunds, chargeClaim, refundClaim>>

(* What a restart makes of a request: the connection is gone. *)
HungUp(r) == IF http[r].at \in {"posted", "recovering", "opened"}
               THEN [http[r] EXCEPT !.at = "answered", !.code = 503, !.id = NONE] ELSE http[r]

(* A restart: handlers die and timers are gone; the ledger is as committed. *)
Restart ==
  /\ http' = [r \in Request |-> HungUp(r)]
  /\ wire' = NoWebhooks
  /\ UNCHANGED <<charges, refunds, chargeClaim, refundClaim>>

(* A request that never arrives, or that the caller gave up before sending. *)
Drop(r) ==
  /\ http[r].at = "posted"
  /\ Answer(r, 503, NONE)
  /\ UNCHANGED <<charges, refunds, chargeClaim, refundClaim, wire>>

Handle(r) == \/ OpenCharge(r) \/ RecoverCharge(r) \/ MaterialiseCharge(r)
             \/ OpenRefund(r) \/ MaterialiseRefund(r)

=============================================================================
