-------------------------- MODULE PaymentFlowProofs --------------------------
(***************************************************************************)
(* Proofs about payments: the API's books against the provider's ledger.   *)
(* The two share only HTTP, so the inductive invariant says what each kind *)
(* of message under way still guarantees when it arrives: a request names  *)
(* its own booking or charge, a webhook is about something that happened,  *)
(* and an answer carries the id that the claim of its key has.             *)
(***************************************************************************)
EXTENDS Reconciliation, Reports, PaygateProofs, SumsProofs

(* The amounts that may go back to the customer of a booking. *)
Terms(b) == IF snapshot[b] = NoPolicy THEN {Total(b)}
            ELSE {computeRefund(b, tier) : tier \in snapshot[b]}

(* A refund of the amount is one the API has committed itself to. *)
Owed(c, n) == \E b \in Booking : payment[b].charge = c /\ payment[b].refundKey /\ n \in Terms(b)

(* What a webhook says is true. *)
Happened(c, e) ==
  /\ e = "charge.succeeded" => charges[c].status = "succeeded"
  /\ e = "charge.failed" => charges[c].status = "failed"
  /\ e = "refund.succeeded" =>
       \E d \in RefundId : refunds[d] # Unused /\ refunds[d].charge = c /\ refunds[d].materialised

(* A charge is for the booking its key was derived from, and was asked for  *)
(* by a payment that was committed before.                                  *)
OwnCharge(c) == charges[c] # Unused =>
  /\ charges[c].reference = charges[c].key
  /\ chargeClaim[charges[c].key].charge = c
  /\ payment[charges[c].key].status # "NONE"

(* A refund is the only one of its charge, and it is owed. *)
OwnRefund(d) == refunds[d] # Unused =>
  /\ refundClaim[refunds[d].charge].refund = d
  /\ Owed(refunds[d].charge, refunds[d].amount)

ClaimOfCharge(c) == refundClaim[c].refund # NONE => refunds[refundClaim[c].refund].charge = c

(* A request under way, and what a 202 to it says. *)
OwnRequest(r) == http[r] # Idle =>
  /\ http[r].op = "charge" => /\ http[r].body.of = http[r].key
                              /\ payment[http[r].key].status # "NONE"
  /\ http[r].op = "refund" => /\ http[r].body.of = http[r].key
                              /\ Owed(http[r].key, http[r].body.amount)

Accepted(r) == http[r] # Idle /\ http[r].at = "answered" /\ http[r].code = 202 =>
  /\ http[r].id # NONE
  /\ http[r].op = "charge" => http[r].id = chargeClaim[http[r].key].charge
  /\ http[r].op = "refund" => http[r].id = refundClaim[http[r].key].refund

(* Who waits in a slot waits for the answer to what it asked. *)
Waiting(r) ==
  /\ caller[r] # NoCaller /\ caller[r].as = "pay" =>
       http[r] # Idle /\ http[r].op = "charge" /\ http[r].key = caller[r].booking
  /\ caller[r] # NoCaller /\ caller[r].as = "refund" =>
       http[r] # Idle /\ http[r].op = "refund" /\ http[r].key = payment[caller[r].booking].charge

WebhooksTrue == \A c \in ChargeId, e \in Events : wire[c][e] > 0 \/ inbox[c][e] > 0 => Happened(c, e)

(* A payments row against the ledger. *)
Books(b) ==
  LET p == payment[b]  c == payment[b].charge IN
  /\ c \in {NONE, chargeClaim[b].charge}
  /\ p.refund # NONE => c # NONE /\ p.refund = refundClaim[c].refund
  /\ p.refundKey \/ snapshot[b] # NoPolicy => p.status \in {"SUCCEEDED", "REFUNDED"}
  /\ p.status \in {"SUCCEEDED", "REFUNDED"} =>
       c # NONE /\ charges[c].status = "succeeded" /\ "charge.succeeded" \in applied[c]
  /\ p.status = "FAILED" => c # NONE /\ charges[c].status = "failed"
  /\ p.status = "REFUNDED" =>
       /\ p.refundKey /\ p.refund # NONE /\ refunds[p.refund].materialised
       /\ p.refunded = refunds[p.refund].amount
  /\ p.refunded # 0 => p.status = "REFUNDED"

(* A payments row against its booking and what a worker is about to do. *)
Standing(b) ==
  /\ status[b] # "COMPLETED"
  /\ cancelling[b] => status[b] \in {"CANCELLED", "REFUNDED"}
  /\ status[b] = "CONFIRMED" =>
       payment[b].status = "SUCCEEDED" /\ ~payment[b].refundKey /\ snapshot[b] # NoPolicy
  /\ payment[b].status = "SUCCEEDED" =>
       \/ status[b] = "CONFIRMED" \/ payment[b].refundKey
       \/ status[b] = "CANCELLED" /\ snapshot[b] # NoPolicy
  /\ instruction[b] > 0 => payment[b].refundKey /\ instruction[b] \in Terms(b)

Ledger == /\ \A c \in ChargeId : OwnCharge(c) /\ ClaimOfCharge(c)
          /\ \A d \in RefundId : OwnRefund(d)
          /\ WebhooksTrue

Requests == \A r \in Request : OwnRequest(r) /\ Accepted(r) /\ Waiting(r)

Bookings == \A b \in Booking : Books(b) /\ Standing(b)

FlowInv == FlowTypeOK /\ ProviderInv /\ Ledger /\ Requests /\ Bookings

-----------------------------------------------------------------------------
(* What a step of the provider may do to its ledger, in terms of requests   *)
(* that are under way: rows and outcomes stay, a new row is one that was    *)
(* asked for, and a webhook is scheduled for what has happened.             *)
ChargesGrow ==
  \A c \in ChargeId :
    /\ charges[c] # Unused =>
         /\ charges'[c] # Unused /\ charges'[c].key = charges[c].key
         /\ charges'[c].reference = charges[c].reference
         /\ charges[c].status # "processing" => charges'[c].status = charges[c].status
    /\ charges[c] = Unused /\ charges'[c] # Unused =>
         \E r \in Request : /\ http[r] # Idle /\ http[r].op = "charge"
                            /\ charges'[c].key = http[r].key
                            /\ charges'[c].reference = http[r].body.of
                            /\ chargeClaim'[http[r].key].charge = c

RefundsGrow ==
  \A d \in RefundId :
    /\ refunds[d] # Unused =>
         /\ refunds'[d] # Unused /\ refunds'[d].charge = refunds[d].charge
         /\ refunds'[d].amount = refunds[d].amount
         /\ refunds[d].materialised => refunds'[d].materialised
    /\ refunds[d] = Unused /\ refunds'[d] # Unused =>
         \E r \in Request : /\ http[r] # Idle /\ http[r].op = "refund"
                            /\ refunds'[d].charge = http[r].body.of
                            /\ refunds'[d].amount = http[r].body.amount
                            /\ refundClaim'[http[r].key].refund = d

RefundClaimsGrow ==
  \A k \in RefundKey :
    refundClaim'[k].refund # NONE =>
      \/ refundClaim[k].refund = refundClaim'[k].refund
      \/ \E r \in Request : /\ http[r] # Idle /\ http[r].op = "refund" /\ http[r].key = k
                            /\ refunds'[refundClaim'[k].refund].charge = http[r].body.of

WebhooksStayTrue ==
  \A c \in ChargeId, e \in Events : wire'[c][e] > 0 => wire[c][e] > 0 \/ Happened(c, e)'

RequestStays(r) ==
  /\ http'[r] = Idle <=> http[r] = Idle
  /\ http[r] # Idle =>
       /\ http'[r].op = http[r].op /\ http'[r].key = http[r].key /\ http'[r].body = http[r].body
       /\ http'[r] = http[r] \/ Accepted(r)'

RequestsStay == \A r \in Request : RequestStays(r)

LedgerMoves == ClaimsStay /\ ChargesGrow /\ RefundsGrow /\ RefundClaimsGrow /\ WebhooksStayTrue
ProviderMoves == LedgerMoves /\ RequestsStay

(* A step that leaves the ledger alone. *)
LEMMA LedgerSame ==
  ASSUME ProviderInv, UNCHANGED <<charges, refunds, chargeClaim, refundClaim, wire>>
  PROVE  LedgerMoves
  BY DEF LedgerMoves, ClaimsStay, ChargesGrow, RefundsGrow, RefundClaimsGrow, WebhooksStayTrue

(* Answering a request with no id, or with the id that its claim has. *)
LEMMA AnswerStays ==
  ASSUME ProviderInv, NEW r \in Request, http[r] # Idle, NEW code \in Codes, NEW id \in Nat,
         Answer(r, code, id),
         code = 202 => /\ id # NONE
                       /\ http[r].op = "charge" => id = chargeClaim'[http[r].key].charge
                       /\ http[r].op = "refund" => id = refundClaim'[http[r].key].refund
  PROVE  RequestsStay
<1>1. /\ \A q \in Request : q # r => http'[q] = http[q]
      /\ http'[r] # Idle /\ http'[r].code = code /\ http'[r].id = id
      /\ http'[r].op = http[r].op /\ http'[r].key = http[r].key /\ http'[r].body = http[r].body
  BY Answering
<1>2. Accepted(r)'
  BY <1>1 DEF Accepted
<1> QED BY <1>1, <1>2 DEF RequestsStay, RequestStays

(* A handler that goes on has not answered yet. *)
LEMMA ProceedStays ==
  ASSUME ProviderInv, NEW r \in Request, http[r] # Idle, NEW at \in {"recovering", "opened"},
         NEW id \in Nat, Proceed(r, at, id)
  PROVE  RequestsStay
<1>1. /\ \A q \in Request : q # r => http'[q] = http[q]
      /\ http'[r] # Idle /\ http'[r].at = at
      /\ http'[r].op = http[r].op /\ http'[r].key = http[r].key /\ http'[r].body = http[r].body
  BY Moving
<1>2. Accepted(r)'
  BY <1>1 DEF Accepted
<1> QED BY <1>1, <1>2 DEF RequestsStay, RequestStays

(* openCharge: a new charge is the one the request asks for. *)
LEMMA OpenChargeMoves ==
  ASSUME ProviderInv, NEW r \in Request, OpenCharge(r)
  PROVE  ProviderMoves
<1> USE DEF ProviderInv
<1> DEFINE k == http[r].key
           claim == chargeClaim[k]
<1>1. http[r] # Idle /\ http[r] \in Call /\ http[r].op = "charge"
  BY NotARow DEF OpenCharge, ProviderTypeOK
<1>2. k \in ChargeKey
  BY <1>1 DEF OpenCharge, RequestsInOrder, InOrder, ChargeRequest, RefundRequest
<1>3. {202, 409, 500} \subseteq Codes /\ NONE \in Nat /\ ChargeId \subseteq Nat
  BY LedgerAssumption DEF Codes, NONE
<1>4. claim.charge \in Nat
  <2>1. claim.charge \in ChargeId \cup {NONE}
    BY <1>2 DEF ProviderTypeOK
  <2> QED BY <1>3, <2>1
<1>5. UNCHANGED <<refunds, refundClaim, wire>>
  BY DEF OpenCharge
<1>6. CASE UNCHANGED <<charges, chargeClaim>>
  <2>1. LedgerMoves
    BY <1>5, <1>6, LedgerSame
  <2>2. \/ Answer(r, 409, NONE) \/ Answer(r, 500, NONE)
        \/ claim.charge # NONE /\ Answer(r, 202, claim.charge)
        \/ Proceed(r, "recovering", claim.charge)
        \/ Proceed(r, "opened", NextId(FreshCharges)) /\ FreshCharges # {}
    BY DEF OpenCharge
  <2>3. CASE Answer(r, 409, NONE) \/ Answer(r, 500, NONE)
    BY <1>1, <1>3, <2>1, <2>3, AnswerStays DEF ProviderMoves
  <2>4. CASE claim.charge # NONE /\ Answer(r, 202, claim.charge)
    BY <1>1, <1>3, <1>4, <1>6, <2>1, <2>4, AnswerStays DEF ProviderMoves
  <2>5. CASE Proceed(r, "recovering", claim.charge)
    BY <1>1, <1>4, <2>1, <2>5, ProceedStays DEF ProviderMoves
  <2>6. CASE Proceed(r, "opened", NextId(FreshCharges)) /\ FreshCharges # {}
    <3>1. NextId(FreshCharges) \in Nat
      BY <1>3, <2>6, Drawn DEF FreshCharges
    <3> QED BY <1>1, <2>1, <2>6, <3>1, ProceedStays DEF ProviderMoves
  <2> QED BY <2>2, <2>3, <2>4, <2>5, <2>6
<1>7. ASSUME claim.charge = NONE, FreshCharges # {}, NEW row, NEW new,
             row.key = k, row.reference = http[r].body.of, new.charge = NextId(FreshCharges),
             charges' = [charges EXCEPT ![NextId(FreshCharges)] = row],
             chargeClaim' = [chargeClaim EXCEPT ![k] = new],
             Answer(r, 500, NONE) \/ Proceed(r, "opened", NextId(FreshCharges))
      PROVE  ProviderMoves
  <2> DEFINE c == NextId(FreshCharges)
  <2>1. c \in ChargeId /\ c \in Nat /\ charges[c] = Unused
    BY <1>3, <1>7, Drawn DEF FreshCharges, Minted, ProviderTypeOK
  <2>2. new.charge = c
    BY <1>7
  <2> HIDE DEF c
  <2>3. charges'[c] = row /\ \A x \in ChargeId : x # c => charges'[x] = charges[x]
    BY <1>7, <2>1 DEF ProviderTypeOK, c
  <2>4. chargeClaim'[k].charge = c /\ \A x \in ChargeKey : x # k => chargeClaim'[x] = chargeClaim[x]
    BY <1>2, <1>7, <2>2 DEF ProviderTypeOK
  <2>5. ClaimsStay
    BY <1>5, <1>7, <2>4 DEF ClaimsStay
  <2>6. ChargesGrow
    BY <1>1, <1>7, <2>1, <2>3, <2>4 DEF ChargesGrow
  <2>7. RefundsGrow /\ RefundClaimsGrow /\ WebhooksStayTrue
    BY <1>5 DEF RefundsGrow, RefundClaimsGrow, WebhooksStayTrue
  <2>8. LedgerMoves
    BY <2>5, <2>6, <2>7 DEF LedgerMoves
  <2>9. RequestsStay
    <3>1. CASE Answer(r, 500, NONE)
      BY <1>1, <1>3, <3>1, AnswerStays
    <3>2. CASE Proceed(r, "opened", NextId(FreshCharges))
      BY <1>1, <2>1, <3>2, ProceedStays DEF c
    <3> QED BY <1>7, <3>1, <3>2
  <2> QED BY <2>8, <2>9 DEF ProviderMoves
<1>8. \/ UNCHANGED <<charges, chargeClaim>>
      \/ /\ claim.charge = NONE /\ FreshCharges # {}
         /\ \E row, new :
              /\ row.key = k /\ row.reference = http[r].body.of
              /\ new.charge = NextId(FreshCharges)
              /\ charges' = [charges EXCEPT ![NextId(FreshCharges)] = row]
              /\ chargeClaim' = [chargeClaim EXCEPT ![k] = new]
         /\ Answer(r, 500, NONE) \/ Proceed(r, "opened", NextId(FreshCharges))
  <2> DEFINE row == [key |-> k, reference |-> http[r].body.of, amount |-> http[r].body.amount,
                     status |-> "processing", materialised |-> FALSE, refunded |-> 0]
             new(fails) == [charge |-> NextId(FreshCharges), body |-> http[r].body,
                            outcome |-> IF fails THEN "failed_500" ELSE "accepted"]
  <2>1. row.key = k /\ row.reference = http[r].body.of
        /\ \A fails : new(fails).charge = NextId(FreshCharges)
    OBVIOUS
  <2>2. \/ UNCHANGED <<charges, chargeClaim>>
        \/ /\ claim.charge = NONE /\ FreshCharges # {}
           /\ \E fails \in BOOLEAN : 
                /\ charges' = [charges EXCEPT ![NextId(FreshCharges)] = row]
                /\ chargeClaim' = [chargeClaim EXCEPT ![k] = new(fails)]
           /\ Answer(r, 500, NONE) \/ Proceed(r, "opened", NextId(FreshCharges))
    BY DEF OpenCharge
  <2> HIDE DEF row, new
  <2> QED BY <2>1, <2>2
<1> QED BY <1>6, <1>7, <1>8

(* The claim is repaired, and names the same charge. *)
LEMMA RecoverChargeMoves ==
  ASSUME ProviderInv, NEW r \in Request, RecoverCharge(r)
  PROVE  ProviderMoves
<1> USE DEF ProviderInv
<1> DEFINE k == http[r].key
           new == [chargeClaim[k] EXCEPT !.outcome = "accepted"]
<1>1. http[r] # Idle /\ http[r] \in Call /\ http[r].id \in Nat
  BY NotARow DEF RecoverCharge, ProviderTypeOK, Call
<1>2. k \in ChargeKey
  BY <1>1 DEF RecoverCharge, RequestsInOrder, InOrder, ChargeRequest, RefundRequest
<1>3. new.charge = chargeClaim[k].charge
  BY <1>2 DEF ProviderTypeOK
<1>4. /\ chargeClaim' = [chargeClaim EXCEPT ![k] = new] /\ Proceed(r, "opened", http[r].id)
      /\ UNCHANGED <<charges, refunds, refundClaim, wire>>
  BY DEF RecoverCharge
<1> HIDE DEF new
<1>5. \A x \in ChargeKey : chargeClaim'[x].charge = chargeClaim[x].charge
  BY <1>2, <1>3, <1>4 DEF ProviderTypeOK
<1>6. LedgerMoves
  BY <1>4, <1>5 DEF LedgerMoves, ClaimsStay, ChargesGrow, RefundsGrow, RefundClaimsGrow,
                    WebhooksStayTrue
<1> QED BY <1>1, <1>4, <1>6, ProceedStays DEF ProviderMoves

(* A charge gets its outcome, once, and the webhooks announce it. *)
LEMMA MaterialiseChargeMoves ==
  ASSUME ProviderInv, NEW r \in Request, MaterialiseCharge(r)
  PROVE  ProviderMoves
<1> USE DEF ProviderInv
<1> DEFINE c == http[r].id
           outcome == IF charges[c].amount = DECLINE_AMOUNT THEN "failed" ELSE "succeeded"
           event == IF outcome = "failed" THEN "charge.failed" ELSE "charge.succeeded"
           new == [charges[c] EXCEPT !.materialised = TRUE, !.status = outcome]
<1>1. http[r] # Idle /\ http[r] \in Call /\ http[r].op = "charge"
  BY NotARow DEF MaterialiseCharge, ProviderTypeOK
<1>2. http[r].key \in ChargeKey /\ c = chargeClaim[http[r].key].charge /\ c # NONE
  BY <1>1 DEF MaterialiseCharge, RequestsInOrder, InOrder, ChargeRequest, RefundRequest
<1>3. c \in ChargeId /\ charges[c] # Unused /\ charges[c] \in Charge
  BY <1>2 DEF ClaimsBacked, ProviderTypeOK
<1>4. c \in Nat /\ 202 \in Codes
  BY <1>3, LedgerAssumption DEF Codes
<1>5. Answer(r, 202, c) /\ UNCHANGED <<refunds, chargeClaim, refundClaim>>
  BY DEF MaterialiseCharge
<1>6. RequestsStay
  BY <1>1, <1>2, <1>4, <1>5, AnswerStays
<1>7. CASE UNCHANGED <<charges, wire>>
  BY <1>5, <1>6, <1>7, LedgerSame DEF ProviderMoves
<1>8. CASE /\ ~charges[c].materialised /\ charges' = [charges EXCEPT ![c] = new]
           /\ Dispatch(c, event)
  <2>1. c \in Minted(charges)
    BY <1>3 DEF Minted, ProviderTypeOK
  <2>2. charges[c].status = "processing"
    BY <1>8, <2>1 DEF OutcomesFinal
  <2>3. /\ new.key = charges[c].key /\ new.reference = charges[c].reference
        /\ new.materialised = TRUE /\ new.status = outcome
    BY <1>3 DEF Charge
  <2>4. new # Unused
    BY <2>3, NotARow
  <2>5. event \in Events /\ (event = "charge.succeeded" => outcome = "succeeded")
        /\ (event = "charge.failed" => outcome = "failed") /\ event # "refund.succeeded"
    BY DEF Events
  <2>6. Dispatch(c, event)
    BY <1>8
  <2> HIDE DEF new, event, outcome
  <2>7. charges'[c] = new /\ \A x \in ChargeId : x # c => charges'[x] = charges[x]
    BY <1>3, <1>8 DEF ProviderTypeOK
  <2>8. \A x \in ChargeId, f \in Events : wire'[x][f] # wire[x][f] => x = c /\ f = event
    BY <1>3, <2>5, <2>6, Dispatching
  <2>9. ASSUME NEW x \in ChargeId, NEW f \in Events, wire'[x][f] > 0, ~(wire[x][f] > 0)
        PROVE  Happened(x, f)'
    <3>1. x = c /\ f = event
      BY <2>8, <2>9
    <3> QED BY <2>3, <2>5, <2>7, <3>1 DEF Happened
  <2>10. WebhooksStayTrue
    BY <2>9 DEF WebhooksStayTrue
  <2>11. ChargesGrow
    BY <1>3, <2>2, <2>3, <2>4, <2>7 DEF ChargesGrow
  <2>12. ClaimsStay /\ RefundsGrow /\ RefundClaimsGrow
    BY <1>5 DEF ClaimsStay, RefundsGrow, RefundClaimsGrow
  <2> QED BY <1>6, <2>10, <2>11, <2>12 DEF ProviderMoves, LedgerMoves
<1>9. \/ UNCHANGED <<charges, wire>>
      \/ /\ ~charges[c].materialised /\ charges' = [charges EXCEPT ![c] = new]
         /\ Dispatch(c, event)
  BY DEF MaterialiseCharge
<1> QED BY <1>7, <1>8, <1>9

(* openRefund: a new refund is the one the request asks for. *)
LEMMA OpenRefundMoves ==
  ASSUME ProviderInv, NEW r \in Request, OpenRefund(r)
  PROVE  ProviderMoves
<1> DEFINE verdict == RefundVerdict(http[r].body.of, http[r].body.amount)
           k == http[r].key
<1>1. /\ http[r].at = "posted" /\ http[r].op = "refund" /\ UNCHANGED <<chargeClaim, wire>>
      /\ \/ ReplayRefund(r)
         \/ refundClaim[k].row = "none" /\ verdict = 202 /\ TakeRefund(r)
         \/ refundClaim[k].row = "none" /\ verdict # 202 /\ Refuse(r, verdict)
  BY DEF OpenRefund
<1>2. /\ http[r] # Idle /\ k \in RefundKey /\ refundClaim[k].refund \in Nat /\ NONE \in Nat
      /\ {202, 404, 409, 422, 500} \subseteq Codes
  BY <1>1, RefundPosted DEF NONE, Codes
<1>3. verdict \in {404, 409, 422, 202} /\ verdict \in Codes
      /\ (verdict = 202 => Refundable(http[r].body.of))
  BY <1>2, Verdicts
<1>4. /\ refundClaim[k].row = "refund" <=> refundClaim[k].refund # NONE
      /\ refundClaim[k].row \in {"none", "void", "refund"}
      /\ refundClaim \in [RefundKey -> [refund : RefundId \cup {NONE}, body : Body \cup {NoBody},
                                        row : {"none", "void", "refund"}]]
  BY <1>2 DEF ProviderInv, RefundClaimsBacked, ProviderTypeOK
<1>5. CASE ReplayRefund(r)
  <2>1. UNCHANGED <<charges, refunds, refundClaim>>
        /\ (\/ Answer(r, 409, NONE) \/ Answer(r, 500, NONE)
            \/ refundClaim[k].row = "refund" /\ Answer(r, 202, refundClaim[k].refund))
    BY <1>4, <1>5 DEF ReplayRefund
  <2>2. RequestsStay
    <3>1. CASE Answer(r, 409, NONE) \/ Answer(r, 500, NONE)
      BY <1>2, <3>1, AnswerStays
    <3>2. CASE refundClaim[k].row = "refund" /\ Answer(r, 202, refundClaim[k].refund)
      BY <1>1, <1>2, <1>4, <2>1, <3>2, AnswerStays
    <3> QED BY <2>1, <3>1, <3>2
  <2> QED BY <1>1, <2>1, <2>2, LedgerSame DEF ProviderMoves
<1>6. CASE refundClaim[k].row = "none" /\ verdict # 202 /\ Refuse(r, verdict)
  <2> DEFINE void == [refund |-> NONE, body |-> http[r].body, row |-> "void"]
  <2>1. /\ Answer(r, verdict, NONE) /\ UNCHANGED <<charges, refunds>>
        /\ refundClaim' = [refundClaim EXCEPT ![k] = void] /\ void.refund = NONE
    BY <1>6 DEF Refuse
  <2> HIDE DEF void, verdict
  <2>2. RequestsStay
    BY <1>2, <1>3, <1>6, <2>1, AnswerStays
  <2>3. \A x \in RefundKey : refundClaim'[x].refund = refundClaim[x].refund
    BY <1>2, <1>4, <1>6, <2>1
  <2>4. LedgerMoves
    BY <1>1, <2>1, <2>3 DEF LedgerMoves, ClaimsStay, ChargesGrow, RefundsGrow, RefundClaimsGrow,
                            WebhooksStayTrue
  <2> QED BY <2>2, <2>4 DEF ProviderMoves
<1>7. CASE refundClaim[k].row = "none" /\ verdict = 202 /\ TakeRefund(r)
  <2> DEFINE c == http[r].body.of
             n == http[r].body.amount
             d == NextId(FreshRefunds)
  <2>1. /\ c \in ChargeId /\ d \in RefundId /\ d \in Nat /\ n \in Amounts
        /\ charges[c] # Unused /\ charges[c].status = "succeeded"
        /\ refunds[d] = Unused /\ refunds'[d] # Unused
        /\ refunds'[d].charge = c /\ refunds'[d].amount = n
        /\ \A x \in RefundId : x # d => refunds'[x] = refunds[x]
        /\ refundClaim'[k].refund = d /\ refundClaim[k].refund = NONE
        /\ \A x \in RefundKey : x # k => refundClaim'[x] = refundClaim[x]
        /\ charges' = [charges EXCEPT ![c].refunded = @ + n]
    BY <1>1, <1>3, <1>7, RefundTaken
  <2>2. Proceed(r, "opened", d)
    BY <1>7 DEF TakeRefund
  <2> HIDE DEF c, n, d
  <2>3. c = http[r].body.of /\ n = http[r].body.amount
    BY DEF c, n
  <2>4. n \in Nat
    BY <2>1, LedgerAssumption
  <2>5. /\ charges'[c] # Unused /\ charges'[c].key = charges[c].key
        /\ charges'[c].reference = charges[c].reference /\ charges'[c].status = charges[c].status
        /\ \A x \in ChargeId : x # c => charges'[x] = charges[x]
    <3>1. charges[c] \in Charge /\ charges \in [ChargeId -> Charge \cup {Unused}]
      BY <2>1 DEF ProviderInv, ProviderTypeOK
    <3> DEFINE new == [charges[c] EXCEPT !.refunded = @ + n]
    <3>2. /\ new \in Charge /\ new.key = charges[c].key /\ new.reference = charges[c].reference
          /\ new.status = charges[c].status
      BY <2>4, <3>1 DEF Charge
    <3>3. charges' = [charges EXCEPT ![c] = new]
      BY <2>1
    <3> HIDE DEF new
    <3> QED BY <2>1, <3>1, <3>2, <3>3, NotARow
  <2>6. ChargesGrow
    BY <2>1, <2>5 DEF ChargesGrow
  <2>7. RefundsGrow
    BY <1>1, <1>2, <2>1, <2>3 DEF RefundsGrow
  <2>8. RefundClaimsGrow
    BY <1>1, <1>2, <2>1, <2>3 DEF RefundClaimsGrow
  <2>9. ClaimsStay /\ WebhooksStayTrue
    BY <1>1, <2>1 DEF ClaimsStay, WebhooksStayTrue
  <2>10. RequestsStay
    BY <1>2, <2>1, <2>2, ProceedStays
  <2> QED BY <2>6, <2>7, <2>8, <2>9, <2>10 DEF ProviderMoves, LedgerMoves
<1> QED BY <1>1, <1>5, <1>6, <1>7

(* A refund comes to life, once, and the webhooks announce it. *)
LEMMA MaterialiseRefundMoves ==
  ASSUME ProviderInv, NEW r \in Request, MaterialiseRefund(r)
  PROVE  ProviderMoves
<1> USE DEF ProviderInv
<1> DEFINE d == http[r].id
           c == refunds[d].charge
           new == [refunds[d] EXCEPT !.materialised = TRUE]
<1>1. http[r] # Idle /\ http[r] \in Call /\ http[r].op = "refund"
  BY NotARow DEF MaterialiseRefund, ProviderTypeOK
<1>2. http[r].key \in RefundKey /\ d = refundClaim[http[r].key].refund /\ d # NONE
  BY <1>1 DEF MaterialiseRefund, RequestsInOrder, InOrder, ChargeRequest, RefundRequest
<1>3. d \in RefundId /\ refunds[d] # Unused /\ refunds[d] \in Refund
  BY <1>2 DEF RefundClaimsBacked, ProviderTypeOK
<1>4. d \in Nat /\ 202 \in Codes /\ c \in ChargeId
  BY <1>3, LedgerAssumption DEF Codes, Refund
<1>5. Answer(r, 202, d) /\ UNCHANGED <<charges, chargeClaim, refundClaim>>
  BY DEF MaterialiseRefund
<1>6. RequestsStay
  BY <1>1, <1>2, <1>4, <1>5, AnswerStays
<1>7. CASE UNCHANGED <<refunds, wire>>
  BY <1>5, <1>6, <1>7, LedgerSame DEF ProviderMoves
<1>8. CASE refunds' = [refunds EXCEPT ![d].materialised = TRUE] /\ Dispatch(c, "refund.succeeded")
  <2>1. /\ new.charge = refunds[d].charge /\ new.amount = refunds[d].amount
        /\ new.materialised = TRUE
    BY <1>3 DEF Refund
  <2>2. new # Unused
    BY <2>1, NotARow
  <2>3. refunds' = [refunds EXCEPT ![d] = new]
    BY <1>8
  <2> HIDE DEF new
  <2>4. refunds'[d] = new /\ \A x \in RefundId : x # d => refunds'[x] = refunds[x]
    BY <1>3, <2>3 DEF ProviderTypeOK
  <2>5. "refund.succeeded" \in Events
    BY DEF Events
  <2>6. \A x \in ChargeId, f \in Events : wire'[x][f] # wire[x][f] => x = c /\ f = "refund.succeeded"
    BY <1>4, <1>8, <2>5, Dispatching
  <2>7. ASSUME NEW x \in ChargeId, NEW f \in Events, wire'[x][f] > 0, ~(wire[x][f] > 0)
        PROVE  Happened(x, f)'
    <3>1. x = c /\ f = "refund.succeeded"
      BY <2>6, <2>7
    <3> QED BY <1>3, <2>1, <2>2, <2>4, <3>1 DEF Happened
  <2>8. WebhooksStayTrue
    BY <2>7 DEF WebhooksStayTrue
  <2>9. RefundsGrow
    BY <1>3, <2>1, <2>2, <2>4 DEF RefundsGrow
  <2>10. ClaimsStay /\ ChargesGrow /\ RefundClaimsGrow
    BY <1>5 DEF ClaimsStay, ChargesGrow, RefundClaimsGrow
  <2> QED BY <1>6, <2>8, <2>9, <2>10 DEF ProviderMoves, LedgerMoves
<1> QED BY <1>7, <1>8 DEF MaterialiseRefund

(* The steps of the provider that are no handler's. *)
LEMMA LossMoves ==
  ASSUME ProviderInv, Restart \/ \E r \in Request : Drop(r)
  PROVE  ProviderMoves
<1>1. ASSUME NEW r \in Request, Drop(r) PROVE ProviderMoves
  <2>1. http[r] # Idle /\ 503 \in Codes /\ NONE \in Nat
    BY <1>1, NotARow DEF Drop, Codes, NONE
  <2>2. Answer(r, 503, NONE) /\ UNCHANGED <<charges, refunds, chargeClaim, refundClaim, wire>>
    BY <1>1 DEF Drop
  <2> QED BY <2>1, <2>2, AnswerStays, LedgerSame DEF ProviderMoves
<1>2. CASE Restart
  <2>1. /\ http' = [r \in Request |-> HungUp(r)] /\ wire' = NoWebhooks
        /\ UNCHANGED <<charges, refunds, chargeClaim, refundClaim>>
    BY <1>2 DEF Restart
  <2>2. \A c \in ChargeId, e \in Events : wire'[c][e] = 0
    BY <2>1 DEF NoWebhooks
  <2>3. LedgerMoves
    BY <2>1, <2>2 DEF LedgerMoves, ClaimsStay, ChargesGrow, RefundsGrow, RefundClaimsGrow,
                      WebhooksStayTrue
  <2>4. RequestsStay
    <3> SUFFICES ASSUME NEW r \in Request
                 PROVE  /\ http'[r] = Idle <=> http[r] = Idle
                        /\ http[r] # Idle =>
                             /\ http'[r].op = http[r].op /\ http'[r].key = http[r].key
                             /\ http'[r].body = http[r].body
                             /\ http'[r] = http[r] \/ Accepted(r)'
      BY DEF RequestsStay, RequestStays
    <3>1. http'[r] = HungUp(r) /\ http[r] \in Call \cup {Idle}
      BY <2>1 DEF ProviderInv, ProviderTypeOK
    <3>2. CASE http[r].at \in {"posted", "recovering", "opened"}
      <4>1. http[r] # Idle /\ http[r] \in Call /\ 503 \in Codes /\ NONE \in Nat
        BY <3>1, <3>2, NotARow DEF Codes, NONE
      <4> DEFINE new == [http[r] EXCEPT !.at = "answered", !.code = 503, !.id = NONE]
      <4>2. /\ new.op = http[r].op /\ new.key = http[r].key
            /\ new.body = http[r].body /\ new.code = 503
        BY <4>1 DEF Call
      <4>3. http'[r] = new
        BY <3>1, <3>2 DEF HungUp
      <4> HIDE DEF new
      <4>4. Accepted(r)' /\ http'[r] # Idle
        <5>1. http'[r] \in Call \cup {Idle} /\ InOrder(r)'
          BY <2>1, AllHungUp DEF RequestsInOrder
        <5>2. http'[r].at = "answered"
          BY <3>1, <3>2, <4>1 DEF HungUp, Call
        <5> QED BY <4>2, <4>3, <5>1, <5>2, NotARow DEF Accepted
      <4> QED BY <4>1, <4>2, <4>3, <4>4, NotARow
    <3>3. CASE http[r].at \notin {"posted", "recovering", "opened"}
      BY <3>1, <3>3 DEF HungUp
    <3> QED BY <3>2, <3>3
  <2> QED BY <2>3, <2>4 DEF ProviderMoves
<1> QED BY <1>1, <1>2

(* Every step the provider takes by itself. *)
LEMMA ProviderStepMoves ==
  ASSUME ProviderInv, ProviderStep
  PROVE  ProviderInv' /\ ProviderMoves
<1>1. ASSUME NEW r \in Request, Handle(r) PROVE ProviderInv' /\ ProviderMoves
  BY <1>1, HandleKept, OpenChargeMoves, RecoverChargeMoves, MaterialiseChargeMoves,
     OpenRefundMoves, MaterialiseRefundMoves DEF Handle
<1>2. ASSUME NEW r \in Request, Drop(r) PROVE ProviderInv' /\ ProviderMoves
  BY <1>2, DropKept, LossMoves
<1>3. CASE Restart
  BY <1>3, RestartKept, LossMoves
<1> QED BY <1>1, <1>2, <1>3 DEF ProviderStep

-----------------------------------------------------------------------------
(* What a step of the API may do to the payments: a payment, its charge and *)
(* its refund key are never taken back, and from the refund key on the      *)
(* terms are settled.                                                       *)
PaymentsGrow ==
  \A b \in Booking :
    /\ payment[b].status # "NONE" => payment'[b].status # "NONE"
    /\ payment[b].charge # NONE => payment'[b].charge = payment[b].charge
    /\ payment[b].refundKey => payment'[b].refundKey /\ snapshot'[b] = snapshot[b]

(* No id of a row is NONE. *)
LEMMA IdsAreSome == \A i \in ChargeId \cup RefundId : i \in Nat /\ i # NONE
  BY LedgerAssumption DEF NONE

(* A charge is on the books of one booking only. *)
LEMMA OneBooking ==
  ASSUME ProviderInv, Bookings, NEW a \in Booking, NEW b \in Booking,
         payment[a].charge # NONE, payment[a].charge = payment[b].charge
  PROVE  a = b
<1>1. chargeClaim[a].charge = payment[a].charge /\ chargeClaim[b].charge = payment[a].charge
  BY DEF Bookings, Books
<1>2. charges[payment[a].charge].key = a /\ charges[payment[a].charge].key = b
  BY <1>1, KeyAssumption DEF ProviderInv, ClaimsBacked
<1> QED BY <1>2

(* What is owed on the charge of a booking is owed by that booking. *)
LEMMA OwedByOwner ==
  ASSUME ProviderInv, Bookings, NEW b \in Booking, payment[b].charge # NONE,
         NEW n, Owed(payment[b].charge, n)
  PROVE  payment[b].refundKey /\ n \in Terms(b)
<1>1. PICK a \in Booking : payment[a].charge = payment[b].charge /\ payment[a].refundKey /\ n \in Terms(a)
  BY DEF Owed
<1>2. a = b
  BY <1>1, OneBooking
<1> QED BY <1>1, <1>2

(* A debt stays one. *)
LEMMA OwedStays ==
  ASSUME Bookings, PaymentsGrow, NEW c, NEW n, Owed(c, n)
  PROVE  \E b \in Booking : payment'[b].charge = c /\ payment'[b].refundKey /\ n \in Terms(b)'
<1>1. PICK b \in Booking : payment[b].charge = c /\ payment[b].refundKey /\ n \in Terms(b)
  BY DEF Owed
<1>2. payment[b].charge # NONE
  BY <1>1 DEF Bookings, Books
<1>3. payment'[b].charge = c /\ payment'[b].refundKey /\ snapshot'[b] = snapshot[b]
  BY <1>1, <1>2 DEF PaymentsGrow
<1>4. n \in Terms(b)'
  BY <1>1, <1>3 DEF Terms, computeRefund, Total
<1> QED BY <1>3, <1>4

(* What has happened has happened. *)
LEMMA HappenedStays ==
  ASSUME ProviderInv, LedgerMoves, NEW c \in ChargeId, NEW e \in Events, Happened(c, e)
  PROVE  Happened(c, e)'
<1>1. ASSUME charges[c].status \in {"succeeded", "failed"}
      PROVE  charges'[c].status = charges[c].status
  <2>1. charges[c] # Unused
    BY <1>1, NotARow
  <2> QED BY <1>1, <2>1 DEF LedgerMoves, ChargesGrow
<1>2. CASE e = "charge.succeeded"
  BY <1>1, <1>2 DEF Happened
<1>3. CASE e = "charge.failed"
  BY <1>1, <1>3 DEF Happened
<1>4. CASE e = "refund.succeeded"
  BY <1>4 DEF Happened, LedgerMoves, RefundsGrow
<1> QED BY <1>2, <1>3, <1>4 DEF Events

(* The ledger stays what the API asked for. *)
LEMMA LedgerKept ==
  ASSUME FlowInv, ProviderInv', LedgerMoves, PaymentsGrow,
         \A c \in ChargeId, e \in Events : inbox'[c][e] > 0 => inbox[c][e] > 0 \/ wire[c][e] > 0
  PROVE  Ledger'
<1> USE DEF FlowInv
<1>1. ASSUME NEW c \in ChargeId, charges'[c] # Unused
      PROVE  /\ charges'[c].reference = charges'[c].key
             /\ chargeClaim'[charges'[c].key].charge = c
             /\ payment'[charges'[c].key].status # "NONE"
  <2>1. CASE charges[c] # Unused
    <3>1. charges[c].key \in ChargeKey
      BY <2>1 DEF ProviderInv, ProviderTypeOK, Charge
    <3>2. /\ charges[c].reference = charges[c].key /\ chargeClaim[charges[c].key].charge = c
          /\ payment[charges[c].key].status # "NONE"
      BY <2>1 DEF Ledger, OwnCharge
    <3>3. charges'[c].key = charges[c].key /\ charges'[c].reference = charges[c].reference
      BY <2>1 DEF LedgerMoves, ChargesGrow
    <3> QED BY <3>1, <3>2, <3>3, IdsAreSome, KeyAssumption DEF LedgerMoves, ClaimsStay, PaymentsGrow
  <2>2. CASE charges[c] = Unused
    <3>1. PICK r \in Request : /\ http[r] # Idle /\ http[r].op = "charge"
                               /\ charges'[c].key = http[r].key
                               /\ charges'[c].reference = http[r].body.of
                               /\ chargeClaim'[http[r].key].charge = c
      BY <1>1, <2>2 DEF LedgerMoves, ChargesGrow
    <3>2. http[r].body.of = http[r].key /\ payment[http[r].key].status # "NONE"
      BY <3>1 DEF Requests, OwnRequest
    <3>3. http[r].key \in Booking
      BY <3>1, KeyAssumption DEF ProviderInv, RequestsInOrder, InOrder, ChargeRequest, RefundRequest
    <3> QED BY <3>1, <3>2, <3>3 DEF PaymentsGrow
  <2> QED BY <2>1, <2>2
<1>2. ASSUME NEW c \in ChargeId, refundClaim'[c].refund # NONE
      PROVE  refunds'[refundClaim'[c].refund].charge = c
  <2> DEFINE d == refundClaim[c].refund
  <2>1. c \in RefundKey
    BY KeyAssumption
  <2>2. CASE d = refundClaim'[c].refund
    <3>1. d # NONE /\ d \in RefundId \cup {NONE}
      BY <1>2, <2>1, <2>2 DEF ProviderInv, ProviderTypeOK
    <3>2. refunds[d] # Unused
      BY <2>1, <3>1 DEF ProviderInv, RefundClaimsBacked
    <3>3. refunds[d].charge = c
      BY <3>1 DEF Ledger, ClaimOfCharge
    <3> QED BY <2>2, <3>1, <3>2, <3>3 DEF LedgerMoves, RefundsGrow
  <2>3. CASE d # refundClaim'[c].refund
    <3>1. PICK r \in Request : /\ http[r] # Idle /\ http[r].op = "refund" /\ http[r].key = c
                               /\ refunds'[refundClaim'[c].refund].charge = http[r].body.of
      BY <1>2, <2>1, <2>3 DEF LedgerMoves, RefundClaimsGrow
    <3> QED BY <3>1 DEF Requests, OwnRequest
  <2> QED BY <2>2, <2>3
<1>3. ASSUME NEW d \in RefundId, refunds'[d] # Unused
      PROVE  /\ refundClaim'[refunds'[d].charge].refund = d
             /\ \E b \in Booking : /\ payment'[b].charge = refunds'[d].charge
                                   /\ payment'[b].refundKey /\ refunds'[d].amount \in Terms(b)'
  <2>1. CASE refunds[d] # Unused
    <3>1. refunds[d].charge \in RefundKey
      BY <2>1, KeyAssumption DEF ProviderInv, ProviderTypeOK, Refund
    <3>2. refundClaim[refunds[d].charge].refund = d /\ Owed(refunds[d].charge, refunds[d].amount)
      BY <2>1 DEF Ledger, OwnRefund
    <3>3. refunds'[d].charge = refunds[d].charge /\ refunds'[d].amount = refunds[d].amount
      BY <2>1 DEF LedgerMoves, RefundsGrow
    <3>4. refundClaim'[refunds'[d].charge].refund = d
      BY <3>1, <3>2, <3>3, IdsAreSome DEF LedgerMoves, ClaimsStay
    <3>5. \A c, n : Owed(c, n) =>
            \E b \in Booking : payment'[b].charge = c /\ payment'[b].refundKey /\ n \in Terms(b)'
      BY OwedStays
    <3> QED BY <3>2, <3>3, <3>4, <3>5
  <2>2. CASE refunds[d] = Unused
    <3>1. PICK r \in Request : /\ http[r] # Idle /\ http[r].op = "refund"
                               /\ refunds'[d].charge = http[r].body.of
                               /\ refunds'[d].amount = http[r].body.amount
                               /\ refundClaim'[http[r].key].refund = d
      BY <1>3, <2>2 DEF LedgerMoves, RefundsGrow
    <3>2. http[r].body.of = http[r].key /\ Owed(http[r].key, http[r].body.amount)
      BY <3>1 DEF Requests, OwnRequest
    <3>3. \A c, n : Owed(c, n) =>
            \E b \in Booking : payment'[b].charge = c /\ payment'[b].refundKey /\ n \in Terms(b)'
      BY OwedStays
    <3> QED BY <3>1, <3>2, <3>3
  <2> QED BY <2>1, <2>2
<1>4. ASSUME NEW c \in ChargeId, NEW e \in Events, wire'[c][e] > 0 \/ inbox'[c][e] > 0
      PROVE  Happened(c, e)'
  BY <1>4, HappenedStays DEF Ledger, WebhooksTrue, LedgerMoves, WebhooksStayTrue
<1> QED BY <1>1, <1>2, <1>3, <1>4 DEF Ledger, OwnCharge, ClaimOfCharge, OwnRefund,
                                     Owed, WebhooksTrue

(* A slot whose request only moves on, waited for by the same caller or by  *)
(* nobody any more.                                                         *)
LEMMA RequestKept ==
  ASSUME FlowInv, ClaimsStay, PaymentsGrow, NEW r \in Request, RequestStays(r),
         caller'[r] \in {caller[r], NoCaller}
  PROVE  OwnRequest(r)' /\ Accepted(r)' /\ Waiting(r)'
<1> USE DEF FlowInv
<1>1. OwnRequest(r) /\ Accepted(r) /\ Waiting(r)
  BY DEF Requests
<1>2. http[r] # Idle => \/ http[r].op = "charge" /\ http[r].key \in Booking
                        \/ http[r].op = "refund" /\ http[r].key \in ChargeId
  BY KeyAssumption DEF ProviderInv, RequestsInOrder, InOrder, ChargeRequest, RefundRequest
<1>3. /\ http'[r] = Idle <=> http[r] = Idle
      /\ http[r] # Idle =>
           /\ http'[r].op = http[r].op /\ http'[r].key = http[r].key /\ http'[r].body = http[r].body
           /\ http'[r] = http[r] \/ Accepted(r)'
  BY DEF RequestStays
<1>4. OwnRequest(r)'
  <2>1. CASE http[r] = Idle
    BY <1>3, <2>1 DEF OwnRequest
  <2>2. CASE http[r] # Idle /\ http[r].op = "charge"
    BY <1>1, <1>2, <1>3, <2>2 DEF OwnRequest, PaymentsGrow
  <2>3. CASE http[r] # Idle /\ http[r].op = "refund"
    <3>1. http[r].body.of = http[r].key /\ Owed(http[r].key, http[r].body.amount)
      BY <1>1, <2>3 DEF OwnRequest
    <3>2. \E b \in Booking : /\ payment'[b].charge = http[r].key
                             /\ payment'[b].refundKey /\ http[r].body.amount \in Terms(b)'
      BY <3>1, OwedStays
    <3>3. \E b \in Booking : /\ payment'[b].charge = http'[r].key
                             /\ payment'[b].refundKey /\ http'[r].body.amount \in Terms(b)'
      BY <1>3, <2>3, <3>2
    <3> QED BY <1>3, <2>3, <3>1, <3>3 DEF OwnRequest, Owed
  <2> QED BY <1>2, <2>1, <2>2, <2>3
<1>5. Accepted(r)'
  <2>1. CASE http'[r] = http[r]
    BY <1>1, <1>2, <2>1, KeyAssumption DEF Accepted, ClaimsStay
  <2>2. CASE http[r] = Idle
    BY <1>3, <2>2 DEF Accepted
  <2> QED BY <1>3, <2>1, <2>2
<1>6. Waiting(r)'
  <2>1. CASE caller'[r] = NoCaller
    BY <2>1 DEF Waiting
  <2>2. CASE caller'[r] = caller[r] /\ caller[r] # NoCaller
    <3>1. caller[r].booking \in Booking
      BY <2>2 DEF FlowTypeOK, Caller
    <3> QED BY <1>1, <1>2, <1>3, <2>2, <3>1, IdsAreSome DEF Waiting, PaymentsGrow
  <2> QED BY <2>1, <2>2
<1> QED BY <1>4, <1>5, <1>6

(* A booking whose own rows a step leaves alone. *)
BookingStays(b) ==
  /\ payment'[b] = payment[b] /\ snapshot'[b] = snapshot[b] /\ status'[b] = status[b]
  /\ cancelling'[b] = cancelling[b] /\ instruction'[b] = instruction[b]

EffectsStay == \A c \in ChargeId : applied[c] \subseteq applied'[c]

(* A payments row that a step leaves alone agrees with the ledger still. *)
LEMMA BooksKept ==
  ASSUME FlowInv, LedgerMoves, EffectsStay, NEW b \in Booking,
         payment'[b] = payment[b], snapshot'[b] = snapshot[b]
  PROVE  Books(b)'
<1> USE DEF FlowInv
<1> DEFINE p == payment[b]
           c == payment[b].charge
<1>1. Books(b)
  BY DEF Bookings
<1>2. p \in Payment
  BY DEF FlowTypeOK
<1>3. /\ c \in {NONE, chargeClaim[b].charge}
      /\ p.refund # NONE => c # NONE /\ p.refund = refundClaim[c].refund
      /\ p.refundKey \/ snapshot[b] # NoPolicy => p.status \in {"SUCCEEDED", "REFUNDED"}
      /\ p.status \in {"SUCCEEDED", "REFUNDED"} =>
           c # NONE /\ charges[c].status = "succeeded" /\ "charge.succeeded" \in applied[c]
      /\ p.status = "FAILED" => c # NONE /\ charges[c].status = "failed"
      /\ p.status = "REFUNDED" =>
           /\ p.refundKey /\ p.refund # NONE /\ refunds[p.refund].materialised
           /\ p.refunded = refunds[p.refund].amount
      /\ p.refunded # 0 => p.status = "REFUNDED"
  BY <1>1 DEF Books
<1>4. c # NONE => /\ c \in ChargeId /\ c \in RefundKey /\ chargeClaim'[b].charge = c
                  /\ applied[c] \subseteq applied'[c]
                  /\ charges[c].status # "processing" => charges'[c].status = charges[c].status
                  /\ refundClaim[c].refund # NONE => refundClaim'[c].refund = refundClaim[c].refund
  <2> SUFFICES ASSUME c # NONE
               PROVE  /\ c \in ChargeId /\ c \in RefundKey /\ chargeClaim'[b].charge = c
                      /\ applied[c] \subseteq applied'[c]
                      /\ charges[c].status # "processing" => charges'[c].status = charges[c].status
                      /\ refundClaim[c].refund # NONE => refundClaim'[c].refund = refundClaim[c].refund
    OBVIOUS
  <2>1. c \in ChargeId /\ c \in RefundKey /\ c = chargeClaim[b].charge /\ b \in ChargeKey
    BY <1>2, <1>3, KeyAssumption DEF Payment
  <2>2. charges[c] # Unused
    BY <2>1 DEF ProviderInv, ClaimsBacked
  <2> QED BY <2>1, <2>2 DEF LedgerMoves, ClaimsStay, ChargesGrow, EffectsStay
<1>5. p.status = "REFUNDED" =>
        /\ refunds'[p.refund].materialised /\ refunds'[p.refund].amount = refunds[p.refund].amount
  <2> SUFFICES ASSUME p.status = "REFUNDED"
               PROVE  /\ refunds'[p.refund].materialised
                      /\ refunds'[p.refund].amount = refunds[p.refund].amount
    OBVIOUS
  <2>1. p.refund \in RefundId /\ refunds[p.refund].materialised
    BY <1>2, <1>3 DEF Payment
  <2>2. refunds[p.refund] # Unused
    BY <2>1, NotARow
  <2> QED BY <2>1, <2>2 DEF LedgerMoves, RefundsGrow
<1>6. payment'[b] = p /\ snapshot'[b] = snapshot[b]
  OBVIOUS
<1> HIDE DEF p, c
<1>7. payment'[b].charge = c
  BY <1>6 DEF p, c
<1> QED BY <1>3, <1>4, <1>5, <1>6, <1>7 DEF Books

(* A booking whose rows stay keeps its books and its standing, whatever the *)
(* provider does meanwhile.                                                 *)
LEMMA BookingKept ==
  ASSUME FlowInv, LedgerMoves, EffectsStay, NEW b \in Booking, BookingStays(b)
  PROVE  Books(b)' /\ Standing(b)'
<1>1. Books(b)'
  BY BooksKept DEF BookingStays
<1>2. Standing(b)
  BY DEF FlowInv, Bookings
<1>3. Standing(b)'
  BY <1>2 DEF BookingStays, Standing, Terms, computeRefund, Total
<1> QED BY <1>1, <1>3

(* The provider by itself: the API's side does not move at all. *)
LEMMA ProviderStepKept ==
  ASSUME FlowInv, ProviderStep
  PROVE  FlowInv'
<1>1. ProviderInv' /\ ProviderMoves /\ UNCHANGED api
  BY ProviderStepMoves DEF FlowInv, ProviderStep
<1>2. /\ status' = status /\ lapsed' = lapsed /\ policy' = policy /\ snapshot' = snapshot
      /\ payment' = payment /\ applied' = applied /\ inbox' = inbox /\ caller' = caller
      /\ cancelling' = cancelling /\ instruction' = instruction
  BY <1>1 DEF api, rows
<1>3. FlowTypeOK'
  BY <1>1, <1>2 DEF FlowInv, FlowTypeOK, ProviderInv
<1>4. PaymentsGrow /\ EffectsStay /\ LedgerMoves /\ ClaimsStay /\ RequestsStay
  BY <1>1, <1>2 DEF PaymentsGrow, EffectsStay, ProviderMoves, LedgerMoves
<1>5. Ledger'
  BY <1>1, <1>2, <1>4, LedgerKept
<1>6. Requests'
  BY <1>2, <1>4, RequestKept DEF Requests, RequestsStay
<1>7. \A b \in Booking : BookingStays(b)
  BY <1>2 DEF BookingStays
<1>8. Bookings'
  BY <1>4, <1>7, BookingKept DEF Bookings
<1> QED BY <1>1, <1>3, <1>5, <1>6, <1>8 DEF FlowInv

-----------------------------------------------------------------------------
(* A step of the API: what is left to show is the rows of the bookings and  *)
(* the slots that it does not leave alone.                                  *)
LEMMA ApiStep ==
  ASSUME FlowInv, FlowTypeOK', ProviderInv', PaymentsGrow, EffectsStay,
         UNCHANGED <<charges, refunds, chargeClaim, refundClaim>>,
         \A c \in ChargeId, e \in Events :
           /\ wire'[c][e] > 0 => wire[c][e] > 0
           /\ inbox'[c][e] > 0 => inbox[c][e] > 0 \/ wire[c][e] > 0,
         \A b \in Booking : BookingStays(b) \/ (Books(b)' /\ Standing(b)'),
         \A r \in Request : \/ RequestStays(r) /\ caller'[r] \in {caller[r], NoCaller}
                            \/ OwnRequest(r)' /\ Accepted(r)' /\ Waiting(r)'
  PROVE  FlowInv'
<1>1. LedgerMoves /\ ClaimsStay
  BY DEF LedgerMoves, ClaimsStay, ChargesGrow, RefundsGrow, RefundClaimsGrow, WebhooksStayTrue
<1>2. Ledger'
  BY <1>1, LedgerKept
<1>3. Requests'
  BY <1>1, RequestKept DEF Requests
<1>4. Bookings'
  BY <1>1, BookingKept DEF Bookings
<1> QED BY <1>2, <1>3, <1>4 DEF FlowInv

(* The provider and the API leave each other's variables alone. *)
LEMMA ProviderSame ==
  ASSUME FlowInv, UNCHANGED provider
  PROVE  /\ ProviderInv' /\ ProviderTypeOK' /\ LedgerMoves
         /\ \A r \in Request : RequestStays(r)
         /\ UNCHANGED <<charges, refunds, chargeClaim, refundClaim, wire, http>>
<1>1. UNCHANGED <<charges, refunds, chargeClaim, refundClaim, wire, http>>
  BY DEF provider
<1>2. ProviderTypeOK'
  BY <1>1 DEF FlowInv, ProviderInv, ProviderTypeOK
<1>3. ProviderInv'
  BY <1>1, <1>2 DEF FlowInv, ProviderInv, RequestsInOrder, InOrder, ChargeRequest, RefundRequest,
                    KeysUnique, ClaimsBacked, RefundClaimsBacked, OutcomesFinal, RefundsBacked, Minted
<1>4. LedgerMoves
  BY <1>1, LedgerSame DEF FlowInv
<1>5. \A r \in Request : RequestStays(r)
  BY <1>1 DEF RequestStays
<1> QED BY <1>1, <1>2, <1>3, <1>4, <1>5

(* A step within the database that moves no payment: only the booking's own *)
(* standing is left to show.                                                *)
LEMMA StatusStep ==
  ASSUME FlowInv, UNCHANGED <<provider, snapshot, payment, applied, inbox, caller>>,
         status' \in [Booking -> Statuses], lapsed' \in [Booking -> BOOLEAN], policy' \in Policy,
         cancelling' \in [Booking -> BOOLEAN], instruction' \in [Booking -> Nat],
         \A b \in Booking : BookingStays(b) \/ Standing(b)'
  PROVE  FlowInv'
<1>1. /\ ProviderInv' /\ ProviderTypeOK' /\ LedgerMoves /\ \A r \in Request : RequestStays(r)
      /\ UNCHANGED <<charges, refunds, chargeClaim, refundClaim, wire>>
  BY ProviderSame
<1>2. FlowTypeOK'
  BY <1>1 DEF FlowInv, FlowTypeOK
<1>3. PaymentsGrow /\ EffectsStay
  BY DEF PaymentsGrow, EffectsStay
<1>4. \A b \in Booking : BookingStays(b) \/ (Books(b)' /\ Standing(b)')
  BY <1>1, <1>3, BooksKept
<1> QED BY <1>1, <1>2, <1>3, <1>4, ApiStep

(* The legal moves there are from a state. *)
LEMMA LegalFrom ==
  /\ \A to : isLegalTransition("DRAFT", to) <=> to = "HELD"
  /\ \A to : isLegalTransition("HELD", to) <=> to \in {"PENDING_PAYMENT", "EXPIRED", "CANCELLED"}
  /\ \A to : isLegalTransition("PENDING_PAYMENT", to) <=> to \in {"CONFIRMED", "FAILED", "EXPIRED"}
  /\ \A to : isLegalTransition("CONFIRMED", to) <=> to \in {"CANCELLED", "COMPLETED"}
  /\ \A to : isLegalTransition("CANCELLED", to) <=> to = "REFUNDED"
  BY DEF isLegalTransition, LEGAL_TRANSITIONS

(* Bookings that are held, expire or are given up. *)
LEMMA HoldKept ==
  ASSUME FlowInv, NEW b \in Booking, Hold(b) \/ Expire(b) \/ Cancel(b)
  PROVE  FlowInv'
<1>1. PICK to \in {"HELD", "EXPIRED", "CANCELLED"} :
        /\ status' = [status EXCEPT ![b] = to]
        /\ to # "CANCELLED" => status[b] \in {"DRAFT", "HELD"} /\ cancelling' = cancelling
        /\ to = "CANCELLED" => /\ status[b] \in {"HELD", "CONFIRMED"}
                               /\ cancelling' = [cancelling EXCEPT ![b] = TRUE]
        /\ UNCHANGED <<provider, lapsed, policy, snapshot, payment, applied, inbox, caller, instruction>>
  <2>1. CASE Hold(b)
    BY <2>1 DEF Hold, Transition
  <2>2. CASE Expire(b)
    BY <2>2 DEF Expire, Transition
  <2>3. CASE Cancel(b)
    BY <2>3 DEF Cancel, Transition
  <2> QED BY <2>1, <2>2, <2>3
<1>2. /\ status \in [Booking -> Statuses] /\ lapsed \in [Booking -> BOOLEAN] /\ policy \in Policy
      /\ cancelling \in [Booking -> BOOLEAN] /\ instruction \in [Booking -> Nat]
      /\ payment[b] \in Payment /\ Books(b) /\ Standing(b)
  BY DEF FlowInv, FlowTypeOK, Bookings
<1>3. /\ status' \in [Booking -> Statuses] /\ lapsed' \in [Booking -> BOOLEAN] /\ policy' \in Policy
      /\ cancelling' \in [Booking -> BOOLEAN] /\ instruction' \in [Booking -> Nat]
  BY <1>1, <1>2 DEF Statuses
<1>4. \A x \in Booking : x # b => BookingStays(x)
  BY <1>1, <1>2 DEF BookingStays
<1>5. Standing(b)'
  <2>1. status'[b] = to /\ payment'[b] = payment[b] /\ snapshot'[b] = snapshot[b]
        /\ instruction'[b] = instruction[b]
    BY <1>1, <1>2
  <2>2. cancelling'[b] => status'[b] = "CANCELLED"
    BY <1>1, <1>2 DEF Standing
  <2>3. payment[b].status = "SUCCEEDED" =>
          payment[b].refundKey \/ (to = "CANCELLED" /\ snapshot[b] # NoPolicy)
    BY <1>1, <1>2 DEF Standing
  <2>4. instruction[b] > 0 => payment[b].refundKey /\ instruction[b] \in Terms(b)
    BY <1>2 DEF Standing
  <2> QED BY <1>1, <2>1, <2>2, <2>3, <2>4 DEF Standing, Terms, computeRefund, Total
<1> QED BY <1>1, <1>3, <1>4, <1>5, StatusStep

(* Time passes, a replica dies, or the venue has a new policy. *)
LEMMA LapseKept ==
  ASSUME FlowInv, NEW b \in Booking, Lapse(b) \/ Rearm(b)
  PROVE  FlowInv'
<1>1. /\ \E v \in BOOLEAN : lapsed' = [lapsed EXCEPT ![b] = v]
      /\ UNCHANGED <<provider, status, policy, snapshot, payment, applied, inbox, caller,
                     cancelling, instruction>>
  BY DEF Lapse, Rearm
<1>2. /\ status \in [Booking -> Statuses] /\ lapsed \in [Booking -> BOOLEAN] /\ policy \in Policy
      /\ cancelling \in [Booking -> BOOLEAN] /\ instruction \in [Booking -> Nat]
  BY DEF FlowInv, FlowTypeOK
<1>3. lapsed' \in [Booking -> BOOLEAN] /\ \A x \in Booking : BookingStays(x)
  BY <1>1, <1>2 DEF BookingStays
<1> QED BY <1>1, <1>2, <1>3, StatusStep

(* The venue has a new policy; the bookings keep their snapshots. *)
LEMMA ReplacePolicyKept ==
  ASSUME FlowInv, NEW p \in Policy, ReplacePolicy(p)
  PROVE  FlowInv'
<1>1. /\ policy' = p
      /\ UNCHANGED <<provider, status, lapsed, snapshot, payment, applied, inbox, caller,
                     cancelling, instruction>>
  BY DEF ReplacePolicy
<1>2. /\ status \in [Booking -> Statuses] /\ lapsed \in [Booking -> BOOLEAN]
      /\ cancelling \in [Booking -> BOOLEAN] /\ instruction \in [Booking -> Nat]
  BY DEF FlowInv, FlowTypeOK
<1>3. \A x \in Booking : BookingStays(x)
  BY <1>1 DEF BookingStays
<1> QED BY <1>1, <1>2, <1>3, StatusStep

(* A replica that dies forgets what it was about to do. *)
LEMMA ReplicaDiesKept ==
  ASSUME FlowInv, NEW b \in Booking, ReplicaDies(b)
  PROVE  FlowInv'
<1>1. /\ cancelling' = [cancelling EXCEPT ![b] = FALSE]
      /\ instruction' = [instruction EXCEPT ![b] = 0]
      /\ UNCHANGED <<provider, status, lapsed, policy, snapshot, payment, applied, inbox, caller>>
  BY DEF ReplicaDies, rows
<1>2. /\ status \in [Booking -> Statuses] /\ lapsed \in [Booking -> BOOLEAN] /\ policy \in Policy
      /\ cancelling \in [Booking -> BOOLEAN] /\ instruction \in [Booking -> Nat] /\ Standing(b)
  BY DEF FlowInv, FlowTypeOK, Bookings
<1>3. cancelling' \in [Booking -> BOOLEAN] /\ instruction' \in [Booking -> Nat]
      /\ ~cancelling'[b] /\ instruction'[b] = 0
  BY <1>1, <1>2
<1>4. \A x \in Booking : x # b => BookingStays(x)
  BY <1>1, <1>2 DEF BookingStays
<1>5. Standing(b)'
  BY <1>1, <1>2, <1>3 DEF Standing
<1> QED BY <1>1, <1>2, <1>3, <1>4, <1>5, StatusStep

-----------------------------------------------------------------------------
(* A step of the API that writes no row: slots, callers and queues.         *)
LEMMA SlotStep ==
  ASSUME FlowInv, ProviderInv',
         UNCHANGED <<charges, refunds, chargeClaim, refundClaim, status, lapsed, policy, snapshot,
                     payment, applied, cancelling, instruction>>,
         inbox' \in [ChargeId -> [Events -> Nat]],
         \A c \in ChargeId, e \in Events :
           /\ wire'[c][e] > 0 => wire[c][e] > 0
           /\ inbox'[c][e] > 0 => inbox[c][e] > 0 \/ wire[c][e] > 0,
         caller' \in [Request -> Caller \cup {NoCaller}],
         \A r \in Request : \/ RequestStays(r) /\ caller'[r] \in {caller[r], NoCaller}
                            \/ OwnRequest(r)' /\ Accepted(r)' /\ Waiting(r)'
  PROVE  FlowInv'
<1>1. FlowTypeOK'
  BY DEF FlowInv, FlowTypeOK, ProviderInv
<1>2. PaymentsGrow /\ EffectsStay /\ \A b \in Booking : BookingStays(b)
  BY DEF PaymentsGrow, EffectsStay, BookingStays
<1> QED BY <1>1, <1>2, ApiStep

(* The unlocked read of pay. *)
LEMMA PayReadKept ==
  ASSUME FlowInv, NEW r \in Request, NEW b \in Booking, PayRead(r, b)
  PROVE  FlowInv'
<1> DEFINE new == [as |-> "pay_read", booking |-> b, seen |-> status[b]]
<1>1. /\ caller' = [caller EXCEPT ![r] = new]
      /\ UNCHANGED <<provider, status, lapsed, policy, snapshot, payment, applied, inbox,
                     cancelling, instruction>>
  BY DEF PayRead, rows
<1>2. /\ caller \in [Request -> Caller \cup {NoCaller}] /\ status[b] \in Statuses
      /\ inbox \in [ChargeId -> [Events -> Nat]] /\ OwnRequest(r) /\ Accepted(r)
  BY DEF FlowInv, FlowTypeOK, Requests
<1>3. new \in Caller /\ new.as = "pay_read"
  BY <1>2 DEF Caller
<1> HIDE DEF new
<1>4. caller' \in [Request -> Caller \cup {NoCaller}] /\ caller'[r] = new
      /\ \A q \in Request : q # r => caller'[q] = caller[q]
  BY <1>1, <1>2, <1>3
<1>5. /\ ProviderInv' /\ \A q \in Request : RequestStays(q)
      /\ UNCHANGED <<charges, refunds, chargeClaim, refundClaim, wire, http>>
  BY <1>1, ProviderSame
<1>6. OwnRequest(r)' /\ Accepted(r)' /\ Waiting(r)'
  BY <1>1, <1>2, <1>3, <1>4, <1>5 DEF OwnRequest, Owed, Terms, computeRefund, Total, Accepted, Waiting
<1> QED BY <1>1, <1>2, <1>4, <1>5, <1>6, SlotStep

(* A caller that no longer waits. *)
LEMMA HangUpKept ==
  ASSUME FlowInv, NEW r \in Request, HangUp(r)
  PROVE  FlowInv'
<1>1. /\ caller' = [caller EXCEPT ![r] = NoCaller]
      /\ UNCHANGED <<provider, status, lapsed, policy, snapshot, payment, applied, inbox,
                     cancelling, instruction>>
  BY DEF HangUp, rows
<1>2. caller \in [Request -> Caller \cup {NoCaller}] /\ inbox \in [ChargeId -> [Events -> Nat]]
  BY DEF FlowInv, FlowTypeOK
<1>3. caller' \in [Request -> Caller \cup {NoCaller}]
      /\ \A q \in Request : caller'[q] \in {caller[q], NoCaller}
  BY <1>1, <1>2
<1>4. /\ ProviderInv' /\ \A q \in Request : RequestStays(q)
      /\ UNCHANGED <<charges, refunds, chargeClaim, refundClaim, wire, http>>
  BY <1>1, ProviderSame
<1> QED BY <1>1, <1>2, <1>3, <1>4, SlotStep

(* A slot that is free again. *)
LEMMA SlotFreed ==
  ASSUME FlowInv, NEW r \in Request, http' = [http EXCEPT ![r] = Idle],
         UNCHANGED <<charges, refunds, chargeClaim, refundClaim, wire>>
  PROVE  /\ ProviderInv' /\ OwnRequest(r)' /\ Accepted(r)'
         /\ \A q \in Request : q # r => RequestStays(q)
<1>1. ProviderInv'
  BY SlotKept DEF FlowInv
<1>2. http'[r] = Idle /\ \A q \in Request : q # r => http'[q] = http[q]
  BY DEF FlowInv, ProviderInv, ProviderTypeOK
<1> QED BY <1>1, <1>2 DEF OwnRequest, Accepted, RequestStays

(* An answer nobody waits for is dropped. *)
LEMMA ForgetKept ==
  ASSUME FlowInv, NEW r \in Request, Forget(r)
  PROVE  FlowInv'
<1>1. /\ caller[r] = NoCaller /\ http' = [http EXCEPT ![r] = Idle]
      /\ UNCHANGED <<charges, refunds, chargeClaim, refundClaim, wire, status, lapsed, policy, snapshot,
                     payment, applied, inbox, caller, cancelling, instruction>>
  BY DEF Forget, api, rows
<1>2. caller \in [Request -> Caller \cup {NoCaller}] /\ inbox \in [ChargeId -> [Events -> Nat]]
  BY DEF FlowInv, FlowTypeOK
<1>3. /\ ProviderInv' /\ OwnRequest(r)' /\ Accepted(r)'
      /\ \A q \in Request : q # r => RequestStays(q)
  BY <1>1, SlotFreed
<1>4. Waiting(r)'
  BY <1>1 DEF Waiting
<1> QED BY <1>1, <1>2, <1>3, <1>4, SlotStep

(* A webhook that is sent, and queued or lost. *)
LEMMA DeliveryKept ==
  ASSUME FlowInv, NEW c \in ChargeId, NEW e \in Events, Ingest(c, e) \/ LoseDelivery(c, e)
  PROVE  FlowInv'
<1>1. /\ Send(c, e)
      /\ inbox' = inbox \/ inbox' = [inbox EXCEPT ![c][e] = @ + 1]
      /\ UNCHANGED <<http, charges, refunds, chargeClaim, refundClaim, status, lapsed, policy, snapshot,
                     payment, applied, caller, cancelling, instruction>>
  BY DEF Ingest, LoseDelivery, Send, api, rows
<1>2. /\ caller \in [Request -> Caller \cup {NoCaller}] /\ inbox \in [ChargeId -> [Events -> Nat]]
      /\ wire \in [ChargeId -> [Events -> Nat]] /\ ProviderInv
  BY DEF FlowInv, FlowTypeOK, ProviderInv, ProviderTypeOK
<1>3. ProviderInv' /\ \A x \in ChargeId, f \in Events : wire'[x][f] <= wire[x][f]
  BY <1>1, <1>2, SendKept
<1>4. wire[c][e] > 0 /\ wire' \in [ChargeId -> [Events -> Nat]]
  BY <1>1, <1>3 DEF Send, ProviderInv, ProviderTypeOK
<1> DEFINE new == [inbox[c] EXCEPT ![e] = @ + 1]
<1>5. new \in [Events -> Nat] /\ \A f \in Events : f # e => new[f] = inbox[c][f]
  BY <1>2
<1>6. inbox' = inbox \/ inbox' = [inbox EXCEPT ![c] = new]
  BY <1>1
<1> HIDE DEF new
<1>7. inbox' \in [ChargeId -> [Events -> Nat]]
  BY <1>2, <1>5, <1>6
<1>8. ASSUME NEW x \in ChargeId, NEW f \in Events
      PROVE  /\ wire'[x][f] > 0 => wire[x][f] > 0
             /\ inbox'[x][f] > 0 => inbox[x][f] > 0 \/ wire[x][f] > 0
  <2>1. wire'[x][f] <= wire[x][f] /\ wire[x][f] \in Nat /\ wire'[x][f] \in Nat
    BY <1>2, <1>3, <1>4
  <2>2. inbox'[x][f] = inbox[x][f] \/ (x = c /\ f = e)
    BY <1>2, <1>5, <1>6
  <2> QED BY <1>4, <2>1, <2>2
<1>9. \A q \in Request : RequestStays(q) /\ caller'[q] = caller[q]
  BY <1>1 DEF RequestStays
<1> QED BY <1>1, <1>2, <1>3, <1>7, <1>8, <1>9, SlotStep

(* What a worker or a customer asks of the provider. *)
LEMMA Asked ==
  ASSUME FlowInv, NEW r \in Request, NEW op \in {"charge", "refund"}, NEW k, NEW n \in Amounts,
         op = "charge" => k \in Booking, op = "refund" => k \in ChargeId,
         http' = [http EXCEPT ![r] = Posted(op, k, [of |-> k, amount |-> n])],
         UNCHANGED <<charges, refunds, chargeClaim, refundClaim, wire>>
  PROVE  /\ ProviderInv' /\ \A q \in Request : q # r => RequestStays(q)
         /\ http'[r] # Idle /\ http'[r].op = op /\ http'[r].key = k
         /\ http'[r].body.of = k /\ http'[r].body.amount = n /\ Accepted(r)'
<1> DEFINE body == [of |-> k, amount |-> n]
           q == Posted(op, k, body)
<1>1. body.of = k /\ body.amount = n
  OBVIOUS
<1>2. q.at = "posted" /\ q.op = op /\ q.key = k /\ q.body = body
  BY DEF Posted
<1>3. q \in Call /\ (ChargeRequest(q) \/ RefundRequest(q))
  BY PostedCalls, KeyAssumption
<1>4. http' = [http EXCEPT ![r] = q]
  OBVIOUS
<1> HIDE DEF q, body
<1>5. ProviderInv'
  BY <1>2, <1>3, <1>4, SlotKept DEF FlowInv
<1>6. http'[r] = q /\ \A x \in Request : x # r => http'[x] = http[x]
  BY <1>4 DEF FlowInv, ProviderInv, ProviderTypeOK
<1>7. q # Idle
  BY <1>2, NotARow
<1>8. http'[r] # Idle /\ http'[r].at = "posted" /\ http'[r].op = op /\ http'[r].key = k
      /\ http'[r].body = body
  BY <1>2, <1>6, <1>7
<1>9. Accepted(r)'
  BY <1>8 DEF Accepted
<1> QED BY <1>1, <1>5, <1>6, <1>8, <1>9 DEF RequestStays

(* pay, once its row is committed: the provider is asked for the booking's  *)
(* own charge.                                                              *)
LEMMA PayWriteKept ==
  ASSUME FlowInv, NEW r \in Request, PayWrite(r)
  PROVE  FlowInv'
<1> USE DEF FlowInv
<1>1. caller[r] \in Caller /\ caller[r].as = "pay_read" /\ caller[r] # NoCaller
  BY DEF PayWrite, FlowTypeOK, NoCaller
<1>2. PICK b \in Booking : b = caller[r].booking
  BY <1>1 DEF Caller
<1>3. /\ caller \in [Request -> Caller \cup {NoCaller}] /\ inbox \in [ChargeId -> [Events -> Nat]]
      /\ payment \in [Booking -> Payment] /\ status \in [Booking -> Statuses]
      /\ payment[b] \in Payment /\ Books(b) /\ Standing(b)
  BY <1>2 DEF FlowTypeOK, Bookings
<1>4. UNCHANGED <<charges, refunds, chargeClaim, refundClaim, wire, lapsed, policy, snapshot,
                  applied, inbox, cancelling, instruction>>
  BY DEF PayWrite
<1>5. CASE caller' = [caller EXCEPT ![r] = NoCaller] /\ UNCHANGED <<http, status, payment>>
  <2>1. HangUp(r)
    BY <1>1, <1>4, <1>5 DEF HangUp, provider, rows
  <2> QED BY <2>1, HangUpKept
<1>6. CASE /\ caller[r].seen = "HELD" => status[b] = "HELD"
           /\ payment' = [payment EXCEPT ![b].status = IF @ = "NONE" THEN "PENDING" ELSE @]
           /\ IF caller[r].seen = "HELD" THEN Transition(b, "PENDING_PAYMENT") ELSE UNCHANGED status
           /\ caller' = [caller EXCEPT ![r].as = "pay"]
           /\ RequestCharge(r, b)
  <2> DEFINE new == [payment[b] EXCEPT !.status = IF @ = "NONE" THEN "PENDING" ELSE @]
             wait == [caller[r] EXCEPT !.as = "pay"]
             n == Total(b)
  <2>1. /\ new \in Payment /\ new.charge = payment[b].charge /\ new.refundKey = payment[b].refundKey
        /\ new.refund = payment[b].refund /\ new.refunded = payment[b].refunded
        /\ new.status # "NONE"
        /\ new.status = payment[b].status \/ (payment[b].status = "NONE" /\ new.status = "PENDING")
    BY <1>3 DEF Payment
  <2>2. wait \in Caller /\ wait.as = "pay" /\ wait.booking = b
    BY <1>1, <1>2 DEF Caller
  <2>3. payment' = [payment EXCEPT ![b] = new] /\ caller' = [caller EXCEPT ![r] = wait]
    BY <1>6
  <2>4. n \in Amounts
    BY <1>2, PriceAssumption, KeyAssumption DEF Total
  <2>5. http' = [http EXCEPT ![r] = Posted("charge", b, [of |-> b, amount |-> n])]
    BY <1>6 DEF RequestCharge
  <2>6. /\ status' \in [Booking -> Statuses] /\ \A x \in Booking : x # b => status'[x] = status[x]
        /\ \/ status'[b] = status[b]
           \/ status[b] = "HELD" /\ status'[b] = "PENDING_PAYMENT"
    BY <1>3, <1>6 DEF Transition, Statuses
  <2> HIDE DEF new, wait, n
  <2>7. /\ payment' \in [Booking -> Payment] /\ payment'[b] = new
        /\ \A x \in Booking : x # b => payment'[x] = payment[x]
    BY <1>2, <1>3, <2>1, <2>3
  <2>8. /\ caller' \in [Request -> Caller \cup {NoCaller}] /\ caller'[r] = wait
        /\ \A q \in Request : q # r => caller'[q] = caller[q]
    BY <1>3, <2>2, <2>3
  <2>9. /\ ProviderInv' /\ \A q \in Request : q # r => RequestStays(q)
        /\ http'[r] # Idle /\ http'[r].op = "charge" /\ http'[r].key = b
        /\ http'[r].body.of = b /\ Accepted(r)'
    BY <1>2, <1>4, <2>4, <2>5, Asked
  <2>10. FlowTypeOK'
    BY <1>3, <1>4, <2>6, <2>7, <2>8, <2>9 DEF FlowTypeOK, ProviderInv
  <2>11. PaymentsGrow /\ EffectsStay
    <3>1. snapshot' = snapshot /\ applied' = applied
      BY <1>4
    <3> QED BY <1>2, <2>1, <2>7, <3>1 DEF PaymentsGrow, EffectsStay
  <2>12. OwnRequest(r)' /\ Waiting(r)'
    <3>1. b \in Booking /\ payment'[b].status # "NONE"
      BY <1>2, <2>1, <2>7
    <3>2. OwnRequest(r)'
      BY <2>9, <3>1 DEF OwnRequest
    <3>3. Waiting(r)'
      BY <2>2, <2>8, <2>9 DEF Waiting
    <3> QED BY <3>2, <3>3
  <2>13. \A x \in Booking : x # b => BookingStays(x)
    BY <1>4, <2>6, <2>7 DEF BookingStays
  <2>14. Books(b)'
    <3>1. /\ payment'[b] = new /\ snapshot'[b] = snapshot[b] /\ chargeClaim' = chargeClaim
          /\ charges' = charges /\ refunds' = refunds /\ applied' = applied /\ refundClaim' = refundClaim
      BY <1>4, <2>7
    <3> QED BY <1>3, <2>1, <3>1 DEF Books
  <2>15. Standing(b)'
    <3>1. /\ payment'[b] = new /\ snapshot'[b] = snapshot[b] /\ cancelling'[b] = cancelling[b]
          /\ instruction'[b] = instruction[b]
      BY <1>4, <2>7
    <3>2. instruction[b] \in Terms(b) => instruction[b] \in Terms(b)'
      BY <3>1 DEF Terms, computeRefund, Total
    <3> QED BY <1>3, <2>1, <2>6, <3>1, <3>2 DEF Standing
  <2>16. /\ \A x \in Booking : BookingStays(x) \/ (Books(x)' /\ Standing(x)')
         /\ \A q \in Request : \/ RequestStays(q) /\ caller'[q] \in {caller[q], NoCaller}
                               \/ OwnRequest(q)' /\ Accepted(q)' /\ Waiting(q)'
    BY <2>8, <2>9, <2>12, <2>13, <2>14, <2>15
  <2> QED BY <1>4, <2>9, <2>10, <2>11, <2>16, ApiStep
<1> QED BY <1>2, <1>5, <1>6 DEF PayWrite

(* A caller that has its answer, and what it writes into the payments row.  *)
LEMMA AnsweredKept ==
  ASSUME FlowInv, NEW r \in Request, NEW b \in Booking, NEW new \in Payment,
         payment' = [payment EXCEPT ![b] = new],
         caller' = [caller EXCEPT ![r] = NoCaller], http' = [http EXCEPT ![r] = Idle],
         UNCHANGED <<charges, refunds, chargeClaim, refundClaim, wire, status, lapsed, policy,
                     snapshot, applied, inbox, cancelling, instruction>>,
         new.status = payment[b].status, new.refundKey = payment[b].refundKey,
         new.refunded = payment[b].refunded,
         \/ new.charge = payment[b].charge
         \/ payment[b].charge = NONE /\ new.charge = chargeClaim[b].charge,
         \/ new.refund = payment[b].refund
         \/ payment[b].refund = NONE /\ new.charge # NONE /\ new.refund = refundClaim[new.charge].refund
  PROVE  FlowInv'
<1> USE DEF FlowInv
<1>1. /\ caller \in [Request -> Caller \cup {NoCaller}] /\ inbox \in [ChargeId -> [Events -> Nat]]
      /\ payment \in [Booking -> Payment] /\ Books(b) /\ Standing(b)
  BY DEF FlowTypeOK, Bookings
<1>2. /\ payment' \in [Booking -> Payment] /\ payment'[b] = new
      /\ \A x \in Booking : x # b => payment'[x] = payment[x]
  BY <1>1
<1>3. /\ caller' \in [Request -> Caller \cup {NoCaller}] /\ caller'[r] = NoCaller
      /\ \A q \in Request : q # r => caller'[q] = caller[q]
  BY <1>1
<1>4. /\ ProviderInv' /\ OwnRequest(r)' /\ Accepted(r)'
      /\ \A q \in Request : q # r => RequestStays(q)
  BY SlotFreed
<1>5. Waiting(r)'
  BY <1>3 DEF Waiting
<1>6. FlowTypeOK'
  BY <1>2, <1>3, <1>4 DEF FlowTypeOK, ProviderInv
<1>7. PaymentsGrow /\ EffectsStay
  BY <1>2 DEF PaymentsGrow, EffectsStay
<1>8. \A x \in Booking : x # b => BookingStays(x)
  BY <1>2 DEF BookingStays
<1>9. Books(b)'
  BY <1>1, <1>2 DEF Books
<1>10. Standing(b)'
  <2>1. instruction[b] \in Terms(b) => instruction[b] \in Terms(b)'
    BY DEF Terms, computeRefund, Total
  <2> QED BY <1>1, <1>2, <2>1 DEF Standing
<1>11. /\ \A x \in Booking : BookingStays(x) \/ (Books(x)' /\ Standing(x)')
       /\ \A q \in Request : \/ RequestStays(q) /\ caller'[q] \in {caller[q], NoCaller}
                             \/ OwnRequest(q)' /\ Accepted(q)' /\ Waiting(q)'
  BY <1>3, <1>4, <1>5, <1>8, <1>9, <1>10
<1> QED BY <1>4, <1>6, <1>7, <1>11, ApiStep

(* A 202 to pay names the charge of the booking's key. *)
LEMMA PayAnsweredKept ==
  ASSUME FlowInv, NEW r \in Request, PayAnswered(r)
  PROVE  FlowInv'
<1> USE DEF FlowInv
<1>1. caller[r] \in Caller /\ caller[r].as = "pay" /\ caller[r] # NoCaller
  BY DEF PayAnswered, FlowTypeOK, NoCaller
<1>2. PICK b \in Booking : b = caller[r].booking
  BY <1>1 DEF Caller
<1> DEFINE takes == http[r].code = 202 /\ payment[b].charge = NONE
           new == IF takes THEN [payment[b] EXCEPT !.charge = http[r].id] ELSE payment[b]
<1>3. payment[b] \in Payment /\ payment \in [Booking -> Payment]
  BY DEF FlowTypeOK
<1>4. http[r] # Idle /\ http[r].op = "charge" /\ http[r].key = b /\ http[r].at = "answered"
  BY <1>1, <1>2 DEF Requests, Waiting, PayAnswered
<1>5. takes => http[r].id = chargeClaim[b].charge
  BY <1>4 DEF Requests, Accepted
<1>6. chargeClaim[b].charge \in ChargeId \cup {NONE}
  BY KeyAssumption DEF ProviderInv, ProviderTypeOK
<1>7. /\ new \in Payment /\ new.status = payment[b].status /\ new.refundKey = payment[b].refundKey
      /\ new.refunded = payment[b].refunded /\ new.refund = payment[b].refund
      /\ \/ new.charge = payment[b].charge
         \/ payment[b].charge = NONE /\ new.charge = chargeClaim[b].charge
  <2>1. CASE takes
    BY <1>3, <1>5, <1>6, <2>1 DEF Payment
  <2>2. CASE ~takes
    BY <1>3, <2>2
  <2> QED BY <2>1, <2>2
<1>8. payment' = [payment EXCEPT ![b] = new]
  BY <1>2, <1>3 DEF PayAnswered
<1>9. /\ caller' = [caller EXCEPT ![r] = NoCaller] /\ http' = [http EXCEPT ![r] = Idle]
      /\ UNCHANGED <<charges, refunds, chargeClaim, refundClaim, wire, status, lapsed, policy,
                     snapshot, applied, inbox, cancelling, instruction>>
  BY DEF PayAnswered
<1> HIDE DEF new, takes
<1> QED BY <1>7, <1>8, <1>9, AnsweredKept

(* A 202 to a refund names the refund of the charge. *)
LEMMA RefundAnsweredKept ==
  ASSUME FlowInv, NEW r \in Request, RefundAnswered(r)
  PROVE  FlowInv'
<1> USE DEF FlowInv
<1>1. caller[r] \in Caller /\ caller[r].as = "refund" /\ caller[r] # NoCaller
  BY DEF RefundAnswered, FlowTypeOK, NoCaller
<1>2. PICK b \in Booking : b = caller[r].booking
  BY <1>1 DEF Caller
<1> DEFINE takes == http[r].code = 202 /\ payment[b].refund = NONE
           new == IF takes THEN [payment[b] EXCEPT !.refund = http[r].id] ELSE payment[b]
           c == payment[b].charge
<1>3. payment[b] \in Payment /\ payment \in [Booking -> Payment]
  BY DEF FlowTypeOK
<1>4. http[r] # Idle /\ http[r].op = "refund" /\ http[r].key = c /\ http[r].at = "answered"
  BY <1>1, <1>2 DEF Requests, Waiting, RefundAnswered
<1>5. c \in ChargeId /\ c # NONE
  <2>1. c \in ChargeId
    BY <1>4, KeyAssumption DEF ProviderInv, RequestsInOrder, InOrder, ChargeRequest, RefundRequest
  <2> QED BY <2>1, IdsAreSome
<1>6. takes => http[r].id = refundClaim[c].refund
  BY <1>4 DEF Requests, Accepted
<1>7. refundClaim[c].refund \in RefundId \cup {NONE}
  BY <1>5, KeyAssumption DEF ProviderInv, ProviderTypeOK
<1>8. /\ new \in Payment /\ new.status = payment[b].status /\ new.refundKey = payment[b].refundKey
      /\ new.refunded = payment[b].refunded /\ new.charge = payment[b].charge
      /\ \/ new.refund = payment[b].refund
         \/ payment[b].refund = NONE /\ new.charge # NONE /\ new.refund = refundClaim[new.charge].refund
  <2>1. CASE takes
    BY <1>3, <1>5, <1>6, <1>7, <2>1 DEF Payment
  <2>2. CASE ~takes
    BY <1>3, <2>2
  <2> QED BY <2>1, <2>2
<1>9. payment' = [payment EXCEPT ![b] = new]
  BY <1>2, <1>3 DEF RefundAnswered
<1>10. /\ caller' = [caller EXCEPT ![r] = NoCaller] /\ http' = [http EXCEPT ![r] = Idle]
       /\ UNCHANGED <<charges, refunds, chargeClaim, refundClaim, wire, status, lapsed, policy,
                      snapshot, applied, inbox, cancelling, instruction>>
  BY DEF RefundAnswered
<1> HIDE DEF new, takes
<1> QED BY <1>8, <1>9, <1>10, AnsweredKept

-----------------------------------------------------------------------------
(* A percentage of an amount is no more than the amount, *)
LEMMA PartOf ==
  ASSUME NEW x \in Nat, NEW t \in 0..100
  PROVE  (x * t) \div 100 \in 0..x
<1>1. x * t \in Nat /\ x * t <= x * 100
  OBVIOUS
<1>2. ASSUME NEW y \in Nat, y <= x * 100
      PROVE  y \div 100 \in 0..x
  BY <1>2
<1> QED BY <1>1, <1>2

(* so that a refund is no more than the price. *)
LEMMA TermsBounded ==
  ASSUME FlowTypeOK, NEW b \in Booking, NEW n \in Terms(b)
  PROVE  n \in 0..Total(b) /\ Total(b) \in Nat
<1>1. Price[b].room \in Nat /\ Price[b].equipment \in Nat
  BY KeyAssumption
<1>2. Total(b) \in Nat
  BY <1>1 DEF Total
<1>3. CASE snapshot[b] = NoPolicy
  BY <1>2, <1>3 DEF Terms
<1>4. CASE snapshot[b] # NoPolicy
  <2>1. PICK tier \in snapshot[b] : n = computeRefund(b, tier)
    BY <1>4 DEF Terms
  <2>2. tier.room \in 0..100 /\ tier.equipment \in 0..100
    BY <1>4, <2>1, KeyAssumption DEF FlowTypeOK
  <2>3. /\ (Price[b].room * tier.room) \div 100 \in 0..Price[b].room
        /\ (Price[b].equipment * tier.equipment) \div 100 \in 0..Price[b].equipment
    BY <1>1, <2>2, PartOf
  <2>4. ASSUME NEW x \in Nat, NEW y \in Nat, NEW v \in 0..x, NEW w \in 0..y
        PROVE  v + w \in 0..(x + y)
    OBVIOUS
  <2>5. computeRefund(b, tier) \in 0..Total(b)
    BY <1>1, <2>3, <2>4, Zenon DEF computeRefund, Total
  <2> QED BY <1>2, <2>1, <2>5
<1> QED BY <1>3, <1>4

(* A worker asks for the refund that is owed. *)
LEMMA IssueRefundKept ==
  ASSUME FlowInv, NEW r \in Request, NEW b \in Booking, IssueRefund(r, b)
  PROVE  FlowInv'
<1> USE DEF FlowInv
<1>1. PICK c, n : c = payment[b].charge /\ n = instruction[b]
  OBVIOUS
<1> DEFINE wait == [as |-> "refund", booking |-> b, seen |-> status[b]]
<1>2. /\ n > 0
      /\ http' = [http EXCEPT ![r] = Posted("refund", c, [of |-> c, amount |-> n])]
      /\ caller' = [caller EXCEPT ![r] = wait]
      /\ instruction' = [instruction EXCEPT ![b] = 0]
      /\ UNCHANGED <<charges, refunds, chargeClaim, refundClaim, wire, status, lapsed, policy, snapshot,
                     payment, applied, inbox, cancelling>>
  BY <1>1 DEF IssueRefund, rows
<1>3. /\ caller \in [Request -> Caller \cup {NoCaller}] /\ inbox \in [ChargeId -> [Events -> Nat]]
      /\ payment[b] \in Payment /\ status[b] \in Statuses /\ instruction \in [Booking -> Nat]
      /\ Books(b) /\ Standing(b)
  BY DEF FlowTypeOK, Bookings
<1>4. payment[b].refundKey /\ n \in Terms(b)
  BY <1>1, <1>2, <1>3 DEF Standing
<1>5. c # NONE /\ c \in ChargeId
  BY <1>1, <1>3, <1>4 DEF Books, Payment
<1>6. n \in Amounts
  <2>1. n \in 0..Total(b) /\ Total(b) \in Nat
    BY <1>4, TermsBounded
  <2>2. n \in 1..Total(b)
    BY <1>2, <2>1
  <2> QED BY <2>2, PriceAssumption
<1>7. wait \in Caller /\ wait.as = "refund" /\ wait.booking = b
  BY <1>3 DEF Caller
<1> HIDE DEF wait
<1>8. /\ caller' \in [Request -> Caller \cup {NoCaller}] /\ caller'[r] = wait
      /\ \A q \in Request : q # r => caller'[q] = caller[q]
  BY <1>2, <1>3, <1>7
<1>9. /\ instruction' \in [Booking -> Nat] /\ instruction'[b] = 0
      /\ \A x \in Booking : x # b => instruction'[x] = instruction[x]
  BY <1>2, <1>3
<1>10. /\ ProviderInv' /\ \A q \in Request : q # r => RequestStays(q)
       /\ http'[r] # Idle /\ http'[r].op = "refund" /\ http'[r].key = c
       /\ http'[r].body.of = c /\ http'[r].body.amount = n /\ Accepted(r)'
  BY <1>2, <1>5, <1>6, Asked
<1>11. FlowTypeOK'
  BY <1>2, <1>8, <1>9, <1>10 DEF FlowTypeOK, ProviderInv
<1>12. PaymentsGrow /\ EffectsStay
  BY <1>2 DEF PaymentsGrow, EffectsStay
<1>13. OwnRequest(r)' /\ Waiting(r)'
  <2>1. n \in Terms(b)' /\ payment'[b].charge = c /\ payment'[b].refundKey
    BY <1>1, <1>2, <1>4 DEF Terms, computeRefund, Total
  <2>2. OwnRequest(r)'
    BY <1>10, <2>1 DEF OwnRequest, Owed
  <2>3. Waiting(r)'
    BY <1>7, <1>8, <1>10, <2>1 DEF Waiting
  <2> QED BY <2>2, <2>3
<1>14. \A x \in Booking : x # b => BookingStays(x)
  BY <1>2, <1>9 DEF BookingStays
<1>15. Books(b)'
  BY <1>2, <1>3 DEF Books
<1>16. Standing(b)'
  BY <1>2, <1>3, <1>9 DEF Standing
<1>17. /\ \A x \in Booking : BookingStays(x) \/ (Books(x)' /\ Standing(x)')
       /\ \A q \in Request : \/ RequestStays(q) /\ caller'[q] \in {caller[q], NoCaller}
                             \/ OwnRequest(q)' /\ Accepted(q)' /\ Waiting(q)'
  BY <1>8, <1>10, <1>13, <1>14, <1>15, <1>16
<1> QED BY <1>2, <1>10, <1>11, <1>12, <1>17, ApiStep

-----------------------------------------------------------------------------
(* A transaction on one booking and its payment: its rows are left to show. *)
LEMMA PaymentStep ==
  ASSUME FlowInv, NEW b \in Booking, NEW new \in Payment,
         UNCHANGED <<provider, lapsed, policy, caller>>,
         payment' = [payment EXCEPT ![b] = new],
         status' \in [Booking -> Statuses], snapshot' \in [Booking -> Policy \cup {NoPolicy}],
         cancelling' \in [Booking -> BOOLEAN], instruction' \in [Booking -> Nat],
         \A x \in Booking : x # b =>
           /\ status'[x] = status[x] /\ snapshot'[x] = snapshot[x]
           /\ cancelling'[x] = cancelling[x] /\ instruction'[x] = instruction[x],
         applied' \in [ChargeId -> SUBSET Events], EffectsStay,
         inbox' \in [ChargeId -> [Events -> Nat]],
         \A c \in ChargeId, e \in Events : inbox'[c][e] > 0 => inbox[c][e] > 0,
         payment[b].status # "NONE" => new.status # "NONE",
         payment[b].charge # NONE => new.charge = payment[b].charge,
         payment[b].refundKey => new.refundKey /\ snapshot'[b] = snapshot[b],
         payment'[b] = new => Books(b)' /\ Standing(b)'
  PROVE  FlowInv'
<1>1. /\ ProviderInv' /\ ProviderTypeOK' /\ \A r \in Request : RequestStays(r)
      /\ UNCHANGED <<charges, refunds, chargeClaim, refundClaim, wire>>
  BY ProviderSame
<1>2. payment \in [Booking -> Payment]
  BY DEF FlowInv, FlowTypeOK
<1>3. /\ payment' \in [Booking -> Payment] /\ payment'[b] = new
      /\ \A x \in Booking : x # b => payment'[x] = payment[x]
  BY <1>2
<1>4. FlowTypeOK'
  BY <1>1, <1>3 DEF FlowInv, FlowTypeOK
<1>5. PaymentsGrow
  BY <1>3 DEF PaymentsGrow
<1>6. \A x \in Booking : BookingStays(x) \/ (Books(x)' /\ Standing(x)')
  BY <1>3 DEF BookingStays
<1> QED BY <1>1, <1>4, <1>5, <1>6, ApiStep

(* settleCancellation: the refund key is committed with the terms of the    *)
(* snapshot, once.                                                          *)
LEMMA SettleCancellationKept ==
  ASSUME FlowInv, NEW b \in Booking, SettleCancellation(b)
  PROVE  FlowInv'
<1> USE DEF FlowInv
<1>1. /\ status \in [Booking -> Statuses] /\ snapshot \in [Booking -> Policy \cup {NoPolicy}]
      /\ cancelling \in [Booking -> BOOLEAN] /\ instruction \in [Booking -> Nat]
      /\ applied \in [ChargeId -> SUBSET Events] /\ inbox \in [ChargeId -> [Events -> Nat]]
      /\ lapsed \in [Booking -> BOOLEAN] /\ policy \in Policy
      /\ payment[b] \in Payment /\ Books(b) /\ Standing(b)
  BY DEF FlowTypeOK, Bookings
<1>2. /\ cancelling[b] /\ cancelling' = [cancelling EXCEPT ![b] = FALSE]
      /\ UNCHANGED <<provider, status, lapsed, policy, snapshot, applied, inbox, caller>>
  BY DEF SettleCancellation
<1>3. status[b] \in {"CANCELLED", "REFUNDED"}
  BY <1>1, <1>2 DEF Standing
<1>4. cancelling' \in [Booking -> BOOLEAN] /\ ~cancelling'[b]
      /\ \A x \in Booking : x # b => cancelling'[x] = cancelling[x]
  BY <1>1, <1>2
<1>5. CASE UNCHANGED <<payment, instruction>>
  <2>1. \A x \in Booking : x # b => BookingStays(x)
    BY <1>2, <1>4, <1>5 DEF BookingStays
  <2>2. Standing(b)'
    <3>1. instruction[b] \in Terms(b) => instruction[b] \in Terms(b)'
      BY <1>2 DEF Terms, computeRefund, Total
    <3> QED BY <1>1, <1>2, <1>4, <1>5, <3>1 DEF Standing
  <2> QED BY <1>1, <1>2, <1>4, <1>5, <2>1, <2>2, StatusStep
<1>6. ASSUME NEW tier \in snapshot[b], snapshot[b] # NoPolicy, payment[b].status = "SUCCEEDED",
             payment' = [payment EXCEPT ![b].refundKey = TRUE],
             instruction' = [instruction EXCEPT ![b] = computeRefund(b, tier)]
      PROVE  FlowInv'
  <2> DEFINE new == [payment[b] EXCEPT !.refundKey = TRUE]
             n == computeRefund(b, tier)
  <2>1. /\ new \in Payment /\ new.status = payment[b].status /\ new.refundKey
        /\ new.charge = payment[b].charge /\ new.refund = payment[b].refund
        /\ new.refunded = payment[b].refunded
    BY <1>1 DEF Payment
  <2>2. n \in Terms(b)
    BY <1>6 DEF Terms
  <2>3. n \in Nat
    BY <2>2, TermsBounded
  <2>4. payment' = [payment EXCEPT ![b] = new] /\ instruction' = [instruction EXCEPT ![b] = n]
    BY <1>6
  <2> HIDE DEF new, n
  <2>5. /\ instruction' \in [Booking -> Nat] /\ instruction'[b] = n
        /\ \A x \in Booking : x # b => instruction'[x] = instruction[x]
    BY <1>1, <2>3, <2>4
  <2>6. snapshot' = snapshot /\ EffectsStay
    BY <1>2 DEF EffectsStay
  <2>7. ASSUME payment'[b] = new PROVE Books(b)' /\ Standing(b)'
    <3>1. UNCHANGED <<charges, refunds, chargeClaim, refundClaim>>
      BY <1>2 DEF provider
    <3>2. Books(b)'
      BY <1>1, <1>2, <1>6, <2>1, <2>7, <3>1 DEF Books
    <3>3. n \in Terms(b)'
      BY <1>2, <2>2 DEF Terms, computeRefund, Total
    <3>4. Standing(b)'
      BY <1>1, <1>2, <1>3, <1>4, <2>1, <2>5, <2>7, <3>3 DEF Standing
    <3> QED BY <3>2, <3>4
  <2>8. \A x \in Booking : x # b =>
           /\ status'[x] = status[x] /\ snapshot'[x] = snapshot[x]
           /\ cancelling'[x] = cancelling[x] /\ instruction'[x] = instruction[x]
    BY <1>2, <1>4, <2>5
  <2>9. /\ payment[b].status # "NONE" => new.status # "NONE"
        /\ payment[b].charge # NONE => new.charge = payment[b].charge
        /\ payment[b].refundKey => new.refundKey /\ snapshot'[b] = snapshot[b]
    BY <1>2, <2>1
  <2>10. /\ status' \in [Booking -> Statuses] /\ snapshot' \in [Booking -> Policy \cup {NoPolicy}]
         /\ applied' \in [ChargeId -> SUBSET Events] /\ inbox' \in [ChargeId -> [Events -> Nat]]
         /\ \A c \in ChargeId, e \in Events : inbox'[c][e] > 0 => inbox[c][e] > 0
         /\ UNCHANGED <<provider, lapsed, policy, caller>>
    BY <1>1, <1>2
  <2> QED BY <1>4, <2>1, <2>4, <2>5, <2>6, <2>7, <2>8, <2>9, <2>10, PaymentStep
<1>7. \/ UNCHANGED <<payment, instruction>>
      \/ /\ payment[b].status = "SUCCEEDED" /\ snapshot[b] # NoPolicy
         /\ payment' = [payment EXCEPT ![b].refundKey = TRUE]
         /\ \E tier \in snapshot[b] : instruction' = [instruction EXCEPT ![b] = computeRefund(b, tier)]
  BY DEF SettleCancellation, TermsFor
<1> QED BY <1>5, <1>6, <1>7

-----------------------------------------------------------------------------
(* The effects, each applied to the payment its charge belongs to.  What a  *)
(* delivery or a poll knows when it gets this far:                          *)
Settles(b, c, e) ==
  /\ c # NONE /\ c = chargeClaim[b].charge /\ payment[b].charge \in {NONE, c}
  /\ payment[b].status # "NONE" /\ Happened(c, e) /\ ~Claimed(c, e)
  /\ UNCHANGED <<provider, lapsed, policy, caller, cancelling>>
  /\ inbox' \in [ChargeId -> [Events -> Nat]]
  /\ \A x \in ChargeId, f \in Events : inbox'[x][f] > 0 => inbox[x][f] > 0

(* Recording an effect forgets no other. *)
LEMMA Recorded ==
  ASSUME FlowTypeOK, NEW c \in ChargeId, NEW e \in Events,
         applied' = [applied EXCEPT ![c] = @ \cup {e}]
  PROVE  applied' \in [ChargeId -> SUBSET Events] /\ e \in applied'[c] /\ EffectsStay
  BY DEF FlowTypeOK, EffectsStay

(* Before its success is applied, a charge has confirmed and refunded       *)
(* nothing.                                                                 *)
LEMMA NotYetSettled ==
  ASSUME FlowInv, NEW b \in Booking, NEW c \in ChargeId, payment[b].charge \in {NONE, c},
         ~Claimed(c, "charge.succeeded") \/ charges[c].status # "succeeded"
  PROVE  /\ payment[b].status \notin {"SUCCEEDED", "REFUNDED"}
         /\ ~payment[b].refundKey /\ snapshot[b] = NoPolicy /\ payment[b].refunded = 0
         /\ status[b] # "CONFIRMED" /\ instruction[b] = 0
<1>1. Books(b) /\ Standing(b) /\ payment[b] \in Payment /\ instruction[b] \in Nat
  BY DEF FlowInv, FlowTypeOK, Bookings
<1>2. payment[b].status \notin {"SUCCEEDED", "REFUNDED"}
  BY <1>1 DEF Books, Claimed
<1>3. ~payment[b].refundKey /\ snapshot[b] = NoPolicy /\ payment[b].refunded = 0
  BY <1>1, <1>2 DEF Books
<1>4. status[b] # "CONFIRMED" /\ instruction[b] = 0
  BY <1>1, <1>2, <1>3 DEF Standing
<1> QED BY <1>2, <1>3, <1>4

(* The fork of INV-4. *)
LEMMA ChargeSucceededKept ==
  ASSUME FlowInv, NEW b \in Booking, NEW c \in ChargeId, Settles(b, c, "charge.succeeded"),
         applied' = [applied EXCEPT ![c] = @ \cup {"charge.succeeded"}],
         onChargeSucceeded(b, c)
  PROVE  FlowInv'
<1> USE DEF FlowInv
<1>1. /\ status \in [Booking -> Statuses] /\ snapshot \in [Booking -> Policy \cup {NoPolicy}]
      /\ cancelling \in [Booking -> BOOLEAN] /\ instruction \in [Booking -> Nat]
      /\ policy \in Policy /\ payment[b] \in Payment /\ Books(b) /\ Standing(b)
  BY DEF FlowTypeOK, Bookings
<1>2. /\ c # NONE /\ c = chargeClaim[b].charge /\ payment[b].charge \in {NONE, c}
      /\ payment[b].status # "NONE" /\ charges[c].status = "succeeded"
      /\ ~Claimed(c, "charge.succeeded")
      /\ UNCHANGED <<provider, lapsed, policy, caller, cancelling>>
      /\ UNCHANGED <<charges, refunds, chargeClaim, refundClaim>>
      /\ inbox' \in [ChargeId -> [Events -> Nat]]
      /\ \A x \in ChargeId, f \in Events : inbox'[x][f] > 0 => inbox[x][f] > 0
  BY DEF Settles, Happened, provider
<1>3. /\ payment[b].status \notin {"SUCCEEDED", "REFUNDED"}
      /\ ~payment[b].refundKey /\ snapshot[b] = NoPolicy /\ payment[b].refunded = 0
      /\ status[b] # "CONFIRMED" /\ instruction[b] = 0
  BY <1>2, NotYetSettled
<1>4. "charge.succeeded" \in Events
  BY DEF Events
<1>5. applied' \in [ChargeId -> SUBSET Events] /\ "charge.succeeded" \in applied'[c] /\ EffectsStay
  BY <1>4, Recorded
<1>6. /\ payment[b].refund # NONE => payment[b].charge = c /\ payment[b].refund = refundClaim[c].refund
      /\ status[b] # "COMPLETED"
      /\ cancelling[b] => status[b] \in {"CANCELLED", "REFUNDED"}
  BY <1>1, <1>2 DEF Books, Standing
<1>7. CASE status[b] = "PENDING_PAYMENT" /\ ~lapsed[b]
  <2> DEFINE new == [payment[b] EXCEPT !.status = "SUCCEEDED", !.charge = c]
  <2>1. /\ new \in Payment /\ new.status = "SUCCEEDED" /\ new.charge = c /\ ~new.refundKey
        /\ new.refund = payment[b].refund /\ new.refunded = 0
    BY <1>1, <1>3 DEF Payment
  <2>2. /\ payment' = [payment EXCEPT ![b] = new]
        /\ status' = [status EXCEPT ![b] = "CONFIRMED"]
        /\ snapshot' = [snapshot EXCEPT ![b] = policy]
        /\ instruction' = instruction
    BY <1>7 DEF onChargeSucceeded, Transition
  <2> HIDE DEF new
  <2>3. policy # NoPolicy
    BY <1>1, KeyAssumption DEF NoPolicy
  <2>4. /\ status' \in [Booking -> Statuses] /\ status'[b] = "CONFIRMED"
        /\ snapshot' \in [Booking -> Policy \cup {NoPolicy}] /\ snapshot'[b] # NoPolicy
        /\ \A x \in Booking : x # b => status'[x] = status[x] /\ snapshot'[x] = snapshot[x]
    BY <1>1, <2>2, <2>3 DEF Statuses
  <2>5. ASSUME payment'[b] = new PROVE Books(b)' /\ Standing(b)'
    <3>1. Books(b)'
      BY <1>2, <1>5, <1>6, <2>1, <2>5 DEF Books
    <3>2. Standing(b)'
      BY <1>2, <1>3, <1>6, <1>7, <2>1, <2>2, <2>4, <2>5 DEF Standing
    <3> QED BY <3>1, <3>2
  <2>6. /\ cancelling' \in [Booking -> BOOLEAN] /\ instruction' \in [Booking -> Nat]
        /\ \A x \in Booking : x # b =>
             /\ status'[x] = status[x] /\ snapshot'[x] = snapshot[x]
             /\ cancelling'[x] = cancelling[x] /\ instruction'[x] = instruction[x]
    BY <1>1, <1>2, <2>2, <2>4
  <2>7. /\ payment[b].status # "NONE" => new.status # "NONE"
        /\ payment[b].charge # NONE => new.charge = payment[b].charge
        /\ payment[b].refundKey => new.refundKey /\ snapshot'[b] = snapshot[b]
    BY <1>2, <1>3, <2>1
  <2>8. UNCHANGED <<provider, lapsed, policy, caller>>
    BY <1>2
  <2> HIDE DEF FlowInv
  <2> QED BY <1>2, <1>5, <2>1, <2>2, <2>4, <2>5, <2>6, <2>7, <2>8, PaymentStep
<1>8. CASE ~(status[b] = "PENDING_PAYMENT" /\ ~lapsed[b])
  <2> DEFINE new == [payment[b] EXCEPT !.status = "SUCCEEDED", !.charge = c, !.refundKey = TRUE]
             n == Total(b)
  <2>1. /\ new \in Payment /\ new.status = "SUCCEEDED" /\ new.charge = c /\ new.refundKey
        /\ new.refund = payment[b].refund /\ new.refunded = 0
    BY <1>1, <1>3 DEF Payment
  <2>2. /\ payment' = [payment EXCEPT ![b] = new]
        /\ status' = [status EXCEPT ![b] = IF @ = "PENDING_PAYMENT" THEN "EXPIRED" ELSE @]
        /\ instruction' = [instruction EXCEPT ![b] = n]
        /\ snapshot' = snapshot
    BY <1>8 DEF onChargeSucceeded
  <2>3. n \in Nat
    BY KeyAssumption DEF Total
  <2> HIDE DEF new
  <2>4. /\ status' \in [Booking -> Statuses] /\ \A x \in Booking : x # b => status'[x] = status[x]
        /\ \/ status'[b] = status[b]
           \/ status[b] = "PENDING_PAYMENT" /\ status'[b] = "EXPIRED"
    BY <1>1, <2>2 DEF Statuses
  <2>5. instruction' \in [Booking -> Nat] /\ instruction'[b] = Total(b)
        /\ \A x \in Booking : x # b => instruction'[x] = instruction[x]
    BY <1>1, <2>2, <2>3
  <2>6. ASSUME payment'[b] = new PROVE Books(b)' /\ Standing(b)'
    <3>1. Books(b)'
      BY <1>2, <1>3, <1>5, <1>6, <2>1, <2>2, <2>6 DEF Books
    <3>2. instruction'[b] \in Terms(b)'
      BY <1>3, <2>2, <2>5 DEF Terms, Total
    <3>3. Standing(b)'
      BY <1>2, <1>3, <1>6, <2>1, <2>4, <2>6, <3>2 DEF Standing
    <3> QED BY <3>1, <3>3
  <2>7. /\ cancelling' \in [Booking -> BOOLEAN] /\ snapshot' \in [Booking -> Policy \cup {NoPolicy}]
        /\ \A x \in Booking : x # b =>
             /\ status'[x] = status[x] /\ snapshot'[x] = snapshot[x]
             /\ cancelling'[x] = cancelling[x] /\ instruction'[x] = instruction[x]
    BY <1>1, <1>2, <2>2, <2>4, <2>5
  <2>8. /\ payment[b].status # "NONE" => new.status # "NONE"
        /\ payment[b].charge # NONE => new.charge = payment[b].charge
        /\ payment[b].refundKey => new.refundKey /\ snapshot'[b] = snapshot[b]
    BY <1>2, <1>3, <2>1
  <2>9. UNCHANGED <<provider, lapsed, policy, caller>>
    BY <1>2
  <2> HIDE DEF n, FlowInv
  <2> QED BY <1>2, <1>5, <2>1, <2>2, <2>4, <2>5, <2>6, <2>7, <2>8, <2>9, PaymentStep
<1> QED BY <1>7, <1>8

(* A declined charge. *)
LEMMA ChargeFailedKept ==
  ASSUME FlowInv, NEW b \in Booking, NEW c \in ChargeId, Settles(b, c, "charge.failed"),
         applied' = [applied EXCEPT ![c] = @ \cup {"charge.failed"}],
         onChargeFailed(b, c)
  PROVE  FlowInv'
<1> USE DEF FlowInv
<1>1. /\ status \in [Booking -> Statuses] /\ snapshot \in [Booking -> Policy \cup {NoPolicy}]
      /\ cancelling \in [Booking -> BOOLEAN] /\ instruction \in [Booking -> Nat]
      /\ payment[b] \in Payment /\ Books(b) /\ Standing(b)
  BY DEF FlowTypeOK, Bookings
<1>2. /\ c # NONE /\ c = chargeClaim[b].charge /\ payment[b].charge \in {NONE, c}
      /\ payment[b].status # "NONE" /\ charges[c].status = "failed"
      /\ UNCHANGED <<provider, lapsed, policy, caller, cancelling>>
      /\ UNCHANGED <<charges, refunds, chargeClaim, refundClaim>>
      /\ inbox' \in [ChargeId -> [Events -> Nat]]
      /\ \A x \in ChargeId, f \in Events : inbox'[x][f] > 0 => inbox[x][f] > 0
  BY DEF Settles, Happened, provider
<1>3. /\ payment[b].status \notin {"SUCCEEDED", "REFUNDED"}
      /\ ~payment[b].refundKey /\ snapshot[b] = NoPolicy /\ payment[b].refunded = 0
      /\ status[b] # "CONFIRMED" /\ instruction[b] = 0
  BY <1>2, NotYetSettled
<1>4. "charge.failed" \in Events
  BY DEF Events
<1>5. applied' \in [ChargeId -> SUBSET Events] /\ EffectsStay
  BY <1>4, Recorded
<1>6. /\ payment[b].refund # NONE => payment[b].charge = c /\ payment[b].refund = refundClaim[c].refund
      /\ status[b] # "COMPLETED"
      /\ cancelling[b] => status[b] \in {"CANCELLED", "REFUNDED"}
  BY <1>1, <1>2 DEF Books, Standing
<1> DEFINE new == [payment[b] EXCEPT !.status = "FAILED", !.charge = c]
<1>7. /\ new \in Payment /\ new.status = "FAILED" /\ new.charge = c /\ ~new.refundKey
      /\ new.refund = payment[b].refund /\ new.refunded = 0
  BY <1>1, <1>3 DEF Payment
<1>8. /\ payment' = [payment EXCEPT ![b] = new]
      /\ status' = status \/ (status[b] = "PENDING_PAYMENT" /\ status' = [status EXCEPT ![b] = "FAILED"])
      /\ snapshot' = snapshot /\ instruction' = instruction
  BY DEF onChargeFailed, Transition
<1> HIDE DEF new
<1>9. /\ status' \in [Booking -> Statuses] /\ \A x \in Booking : x # b => status'[x] = status[x]
      /\ \/ status'[b] = status[b]
         \/ status[b] = "PENDING_PAYMENT" /\ status'[b] = "FAILED"
  BY <1>1, <1>8 DEF Statuses
<1>10. ASSUME payment'[b] = new PROVE Books(b)' /\ Standing(b)'
  <2>1. Books(b)'
    BY <1>2, <1>3, <1>6, <1>7, <1>8, <1>10 DEF Books
  <2>2. Standing(b)'
    BY <1>2, <1>3, <1>6, <1>7, <1>8, <1>9, <1>10 DEF Standing
  <2> QED BY <2>1, <2>2
<1>11. /\ cancelling' \in [Booking -> BOOLEAN] /\ instruction' \in [Booking -> Nat]
       /\ snapshot' \in [Booking -> Policy \cup {NoPolicy}]
       /\ \A x \in Booking : x # b =>
            /\ status'[x] = status[x] /\ snapshot'[x] = snapshot[x]
            /\ cancelling'[x] = cancelling[x] /\ instruction'[x] = instruction[x]
  BY <1>1, <1>2, <1>8, <1>9
<1> QED BY <1>2, <1>3, <1>5, <1>7, <1>8, <1>9, <1>10, <1>11, PaymentStep

(* A charge has at most one refund, which is owed by its booking. *)
LEMMA RefundOfBooking ==
  ASSUME FlowInv, NEW b \in Booking, NEW c \in ChargeId, c = chargeClaim[b].charge,
         NEW d \in RefundId, refunds[d] # Unused, refunds[d].charge = c
  PROVE  /\ refundClaim[c].refund = d
         /\ payment[b].charge = c /\ payment[b].refundKey /\ refunds[d].amount \in Terms(b)
<1> USE DEF FlowInv
<1>1. refundClaim[c].refund = d /\ Owed(c, refunds[d].amount)
  BY DEF Ledger, OwnRefund
<1>2. PICK a \in Booking : /\ payment[a].charge = c /\ payment[a].refundKey
                           /\ refunds[d].amount \in Terms(a)
  BY <1>1 DEF Owed
<1>3. c = chargeClaim[a].charge /\ c # NONE
  BY <1>2, IdsAreSome DEF Bookings, Books
<1>4. a = b
  <2>1. charges[c].key = a /\ charges[c].key = b
    BY <1>3, KeyAssumption DEF ProviderInv, ClaimsBacked
  <2> QED BY <2>1
<1> QED BY <1>1, <1>2, <1>4

(* A refund that has settled at the provider. *)
LEMMA RefundSucceededKept ==
  ASSUME FlowInv, NEW b \in Booking, NEW c \in ChargeId, Settles(b, c, "refund.succeeded"),
         applied' = [applied EXCEPT ![c] = @ \cup {"refund.succeeded"}],
         onRefundSucceeded(b, c)
  PROVE  FlowInv'
<1> USE DEF FlowInv
<1>1. /\ status \in [Booking -> Statuses] /\ snapshot \in [Booking -> Policy \cup {NoPolicy}]
      /\ cancelling \in [Booking -> BOOLEAN] /\ instruction \in [Booking -> Nat]
      /\ payment[b] \in Payment /\ Books(b) /\ Standing(b)
      /\ refunds \in [RefundId -> Refund \cup {Unused}]
  BY DEF FlowTypeOK, ProviderTypeOK, Bookings
<1>2. /\ c # NONE /\ c = chargeClaim[b].charge /\ payment[b].charge \in {NONE, c}
      /\ UNCHANGED <<provider, lapsed, policy, caller, cancelling>>
      /\ UNCHANGED <<charges, refunds, chargeClaim, refundClaim>>
      /\ inbox' \in [ChargeId -> [Events -> Nat]]
      /\ \A x \in ChargeId, f \in Events : inbox'[x][f] > 0 => inbox[x][f] > 0
  BY DEF Settles, provider
<1>3. PICK m \in RefundId : refunds[m] # Unused /\ refunds[m].charge = c /\ refunds[m].materialised
  BY DEF Settles, Happened
<1>4. PICK d \in RefundsOf(c) :
        /\ payment' = [payment EXCEPT ![b].status = "REFUNDED", ![b].charge = c, ![b].refund = d,
                                      ![b].refunded = RefundedMinor(b, d)]
        /\ IF status[b] = "CANCELLED" THEN Transition(b, "REFUNDED") ELSE UNCHANGED status
        /\ UNCHANGED <<snapshot, instruction>>
  BY DEF onRefundSucceeded
<1>5. d \in RefundId /\ refunds[d] # Unused /\ refunds[d].charge = c
  BY <1>1, <1>4 DEF RefundsOf, Minted
<1>6. /\ refundClaim[c].refund = d /\ d = m
      /\ payment[b].charge = c /\ payment[b].refundKey /\ refunds[d].amount \in Terms(b)
  BY <1>2, <1>3, <1>5, RefundOfBooking
<1>7. d # NONE
  BY <1>5, IdsAreSome
<1>8. PICK n \in Nat : n = refunds[d].amount
  BY <1>6, TermsBounded
<1>9. /\ "charge.succeeded" \in applied[c] /\ charges[c].status = "succeeded"
      /\ status[b] \notin {"CONFIRMED", "COMPLETED"}
      /\ cancelling[b] => status[b] \in {"CANCELLED", "REFUNDED"}
      /\ instruction[b] > 0 => instruction[b] \in Terms(b)
  BY <1>1, <1>6 DEF Books, Standing
<1>10. "refund.succeeded" \in Events
  BY DEF Events
<1>11. applied' \in [ChargeId -> SUBSET Events] /\ EffectsStay
  BY <1>10, Recorded
<1> DEFINE new == [payment[b] EXCEPT !.status = "REFUNDED", !.charge = c, !.refund = d, !.refunded = n]
<1>12. /\ new \in Payment /\ new.status = "REFUNDED" /\ new.charge = c /\ new.refundKey
       /\ new.refund = d /\ new.refunded = n
  BY <1>1, <1>5, <1>6 DEF Payment
<1>13. /\ payment' = [payment EXCEPT ![b] = new]
       /\ status' = status \/ (status[b] = "CANCELLED" /\ status' = [status EXCEPT ![b] = "REFUNDED"])
       /\ snapshot' = snapshot /\ instruction' = instruction
  BY <1>4, <1>8 DEF Transition, RefundedMinor
<1> HIDE DEF new
<1>14. /\ status' \in [Booking -> Statuses] /\ \A x \in Booking : x # b => status'[x] = status[x]
       /\ \/ status'[b] = status[b]
          \/ status[b] = "CANCELLED" /\ status'[b] = "REFUNDED"
  BY <1>1, <1>13 DEF Statuses
<1>15. ASSUME payment'[b] = new PROVE Books(b)' /\ Standing(b)'
  <2>1. "charge.succeeded" \in applied'[c]
    BY <1>9, <1>11 DEF EffectsStay
  <2>2. Books(b)'
    BY <1>2, <1>3, <1>6, <1>7, <1>8, <1>9, <1>12, <1>15, <2>1 DEF Books
  <2>3. instruction[b] \in Terms(b) => instruction[b] \in Terms(b)'
    BY <1>13 DEF Terms, computeRefund, Total
  <2>4. Standing(b)'
    BY <1>2, <1>9, <1>12, <1>13, <1>14, <1>15, <2>3 DEF Standing
  <2> QED BY <2>2, <2>4
<1>16. /\ cancelling' \in [Booking -> BOOLEAN] /\ instruction' \in [Booking -> Nat]
       /\ snapshot' \in [Booking -> Policy \cup {NoPolicy}]
       /\ \A x \in Booking : x # b =>
            /\ status'[x] = status[x] /\ snapshot'[x] = snapshot[x]
            /\ cancelling'[x] = cancelling[x] /\ instruction'[x] = instruction[x]
  BY <1>1, <1>2, <1>13, <1>14
<1>17. /\ payment[b].status # "NONE" => new.status # "NONE"
       /\ payment[b].charge # NONE => new.charge = payment[b].charge
       /\ payment[b].refundKey => new.refundKey /\ snapshot'[b] = snapshot[b]
       /\ UNCHANGED <<provider, lapsed, policy, caller>>
  BY <1>2, <1>6, <1>12, <1>13
<1> HIDE DEF FlowInv
<1> QED BY <1>2, <1>11, <1>12, <1>13, <1>14, <1>15, <1>16, <1>17, PaymentStep

(* Everything behind the gate of payment_events. *)
LEMMA EffectKept ==
  ASSUME FlowInv, NEW b \in Booking, NEW c \in ChargeId, NEW e \in Events,
         Settles(b, c, e), Effect(b, c, e)
  PROVE  FlowInv'
<1>1. /\ applied' = [applied EXCEPT ![c] = @ \cup {e}]
      /\ \/ e = "charge.succeeded" /\ onChargeSucceeded(b, c)
         \/ e = "charge.failed" /\ onChargeFailed(b, c)
         \/ e = "refund.succeeded" /\ onRefundSucceeded(b, c)
  BY DEF Effect
<1>2. CASE e = "charge.succeeded" /\ onChargeSucceeded(b, c)
  BY <1>1, <1>2, ChargeSucceededKept
<1>3. CASE e = "charge.failed" /\ onChargeFailed(b, c)
  BY <1>1, <1>3, ChargeFailedKept
<1>4. CASE e = "refund.succeeded" /\ onRefundSucceeded(b, c)
  BY <1>1, <1>4, RefundSucceededKept
<1> QED BY <1>1, <1>2, <1>3, <1>4

(* A delivery about something that happened finds the payment whose claim   *)
(* the charge is.                                                           *)
LEMMA DeliveryFinds ==
  ASSUME FlowInv, NEW c \in ChargeId, NEW e \in Events, inbox[c][e] > 0
  PROVE  /\ Happened(c, e) /\ charges[c] # Unused /\ c # NONE
         /\ \E b \in Booking : /\ b = charges[c].reference /\ c = chargeClaim[b].charge
                               /\ payment[b].status # "NONE"
                               /\ payment[b].charge \in {NONE, c} /\ PaymentFor(c) = {b}
<1> USE DEF FlowInv
<1>1. Happened(c, e)
  BY DEF Ledger, WebhooksTrue
<1>2. charges[c] # Unused
  <2>1. CASE e \in {"charge.succeeded", "charge.failed"}
    BY <1>1, <2>1, NotARow DEF Happened
  <2>2. CASE e = "refund.succeeded"
    <3>1. PICK d \in RefundId : refunds[d] # Unused /\ refunds[d].charge = c
      BY <1>1, <2>2 DEF Happened
    <3>2. d \in Minted(refunds)
      BY <3>1 DEF Minted, ProviderInv, ProviderTypeOK
    <3> QED BY <3>1, <3>2, NotARow DEF ProviderInv, RefundsBacked
  <2> QED BY <2>1, <2>2 DEF Events
<1>3. c # NONE
  BY IdsAreSome
<1>4. PICK b \in Booking : b = charges[c].key
  BY <1>2, KeyAssumption DEF ProviderInv, ProviderTypeOK, Charge
<1>5. b = charges[c].reference /\ c = chargeClaim[b].charge /\ payment[b].status # "NONE"
  BY <1>2, <1>4 DEF Ledger, OwnCharge
<1>6. payment[b].charge \in {NONE, c}
  BY <1>5 DEF Bookings, Books
<1>7. \A a \in Booking : payment[a].charge = c => a = b
  <2> SUFFICES ASSUME NEW a \in Booking, payment[a].charge = c PROVE a = b
    OBVIOUS
  <2>1. c = chargeClaim[a].charge
    BY <1>3 DEF Bookings, Books
  <2> QED BY <1>3, <1>4, <2>1, KeyAssumption DEF ProviderInv, ClaimsBacked
<1>8. PaymentFor(c) = {b}
  <2>1. CASE payment[b].charge = c
    BY <1>7, <2>1 DEF PaymentFor, OwnerOf
  <2>2. CASE payment[b].charge # c
    <3>1. OwnerOf(c) = {}
      BY <1>7, <2>2 DEF OwnerOf
    <3>2. Adoptable(c) = {b}
      BY <1>5, <1>6, <2>2 DEF Adoptable
    <3> QED BY <3>1, <3>2 DEF PaymentFor
  <2> QED BY <2>1, <2>2
<1> QED BY <1>1, <1>2, <1>3, <1>5, <1>6, <1>8

(* applyInTransaction: a delivery is worked off, once. *)
LEMMA ApplyDeliveryKept ==
  ASSUME FlowInv, NEW c \in ChargeId, NEW e \in Events, ApplyDelivery(c, e)
  PROVE  FlowInv'
<1> USE DEF FlowInv
<1>1. inbox[c][e] > 0
  BY DEF ApplyDelivery
<1>2. PICK b \in Booking : /\ b = charges[c].reference /\ c = chargeClaim[b].charge
                           /\ payment[b].status # "NONE"
                           /\ payment[b].charge \in {NONE, c} /\ PaymentFor(c) = {b}
  BY <1>1, DeliveryFinds
<1>3. Happened(c, e) /\ c # NONE
  BY <1>1, DeliveryFinds
<1>4. /\ inbox' = [inbox EXCEPT ![c][e] = @ - 1]
      /\ UNCHANGED <<provider, lapsed, policy, caller, cancelling>>
      /\ IF Claimed(c, e)
           THEN /\ payment' = [payment EXCEPT ![b].charge = c]
                /\ UNCHANGED <<status, snapshot, applied, instruction>>
           ELSE Effect(b, c, e)
  BY <1>2 DEF ApplyDelivery
<1>5. /\ status \in [Booking -> Statuses] /\ snapshot \in [Booking -> Policy \cup {NoPolicy}]
      /\ cancelling \in [Booking -> BOOLEAN] /\ instruction \in [Booking -> Nat]
      /\ applied \in [ChargeId -> SUBSET Events] /\ inbox \in [ChargeId -> [Events -> Nat]]
      /\ payment[b] \in Payment /\ Books(b) /\ Standing(b)
  BY DEF FlowTypeOK, Bookings
<1>6. /\ inbox' \in [ChargeId -> [Events -> Nat]]
      /\ \A x \in ChargeId, f \in Events : inbox'[x][f] > 0 => inbox[x][f] > 0
  <2> DEFINE less == [inbox[c] EXCEPT ![e] = @ - 1]
  <2>1. less \in [Events -> Nat] /\ \A f \in Events : less[f] > 0 => inbox[c][f] > 0
    BY <1>1, <1>5
  <2>2. inbox' = [inbox EXCEPT ![c] = less]
    BY <1>4
  <2> HIDE DEF less
  <2> QED BY <1>5, <2>1, <2>2
<1>7. CASE ~Claimed(c, e)
  <2>1. Settles(b, c, e)
    BY <1>2, <1>3, <1>4, <1>6, <1>7 DEF Settles
  <2> QED BY <1>4, <1>7, <2>1, EffectKept
<1>8. CASE Claimed(c, e)
  <2> DEFINE new == [payment[b] EXCEPT !.charge = c]
  <2>1. /\ new \in Payment /\ new.status = payment[b].status /\ new.charge = c
        /\ new.refundKey = payment[b].refundKey /\ new.refund = payment[b].refund
        /\ new.refunded = payment[b].refunded
    BY <1>5 DEF Payment
  <2>2. /\ payment' = [payment EXCEPT ![b] = new] /\ status' = status /\ snapshot' = snapshot
        /\ applied' = applied /\ instruction' = instruction /\ cancelling' = cancelling
    BY <1>4, <1>8
  <2>3. UNCHANGED <<charges, refunds, chargeClaim, refundClaim>>
    BY <1>4 DEF provider
  <2> HIDE DEF new
  <2>4. ASSUME payment'[b] = new PROVE Books(b)' /\ Standing(b)'
    <3>1. Books(b)'
      <4> HIDE DEF FlowInv
      <4>1. CASE payment[b].charge = c
        <5>1. new = payment[b]
          BY <1>5, <4>1 DEF Payment, new
        <5>2. LedgerMoves /\ EffectsStay
          BY <1>4, <2>2, ProviderSame DEF EffectsStay
        <5> QED BY <2>2, <2>4, <5>1, <5>2, BooksKept
      <4>2. CASE payment[b].charge = NONE
        <5>1. /\ payment[b].status \notin {"SUCCEEDED", "FAILED", "REFUNDED"}
              /\ payment[b].refund = NONE
          BY <1>5, <4>2 DEF Books
        <5> QED BY <1>2, <1>3, <1>5, <2>1, <2>2, <2>3, <2>4, <4>2, <5>1 DEF Books
      <4> QED BY <1>2, <4>1, <4>2
    <3>2. instruction[b] \in Terms(b) => instruction[b] \in Terms(b)'
      BY <2>2 DEF Terms, computeRefund, Total
    <3>3. Standing(b)'
      BY <1>5, <2>1, <2>2, <2>4, <3>2 DEF Standing
    <3> QED BY <3>1, <3>3
  <2>5. /\ payment[b].status # "NONE" => new.status # "NONE"
        /\ payment[b].charge # NONE => new.charge = payment[b].charge
        /\ payment[b].refundKey => new.refundKey /\ snapshot'[b] = snapshot[b]
        /\ UNCHANGED <<provider, lapsed, policy, caller>>
    BY <1>2, <1>4, <2>1, <2>2
  <2>6. EffectsStay
    BY <2>2 DEF EffectsStay
  <2> HIDE DEF FlowInv
  <2> QED BY <1>5, <1>6, <2>1, <2>2, <2>4, <2>5, <2>6, PaymentStep
<1> QED BY <1>7, <1>8

(* The polls ask about the ids that are on the books. *)
LEMMA PollKept ==
  ASSUME FlowInv, NEW b \in Booking, PollCharge(b) \/ PollRefund(b)
  PROVE  FlowInv'
<1> USE DEF FlowInv
<1>1. PICK c : c = payment[b].charge
  OBVIOUS
<1>2. Books(b) /\ payment[b] \in Payment /\ inbox \in [ChargeId -> [Events -> Nat]]
  BY DEF Bookings, FlowTypeOK
<1>3. c # NONE /\ UNCHANGED <<provider, lapsed, policy, inbox, caller, cancelling>>
  BY <1>1 DEF PollCharge, PollRefund
<1>4. c \in ChargeId /\ c = chargeClaim[b].charge
  BY <1>1, <1>2, <1>3 DEF Books, Payment
<1>5. /\ inbox' \in [ChargeId -> [Events -> Nat]]
      /\ \A x \in ChargeId, f \in Events : inbox'[x][f] > 0 => inbox[x][f] > 0
  BY <1>2, <1>3
<1>6. ASSUME NEW e \in Events, Happened(c, e), ~Claimed(c, e), Effect(b, c, e),
             payment[b].status # "NONE"
      PROVE  FlowInv'
  <2>1. Settles(b, c, e)
    BY <1>1, <1>3, <1>4, <1>5, <1>6 DEF Settles
  <2> QED BY <1>4, <1>6, <2>1, EffectKept
<1>7. CASE PollCharge(b)
  <2>1. PICK e \in Events : Happened(c, e) /\ ~Claimed(c, e) /\ Effect(b, c, e)
    BY <1>1, <1>7 DEF PollCharge, Happened, Events
  <2>2. payment[b].status # "NONE"
    BY <1>7 DEF PollCharge
  <2> QED BY <1>6, <2>1, <2>2
<1>8. CASE PollRefund(b)
  <2>1. /\ payment[b].refund # NONE /\ refunds[payment[b].refund].materialised
        /\ ~Claimed(c, "refund.succeeded") /\ Effect(b, c, "refund.succeeded")
    BY <1>1, <1>8 DEF PollRefund
  <2>2. payment[b].refund \in RefundId /\ payment[b].refund = refundClaim[c].refund
    BY <1>1, <1>2, <2>1 DEF Books, Payment
  <2>3. refunds[payment[b].refund] # Unused /\ refunds[payment[b].refund].charge = c
    BY <1>4, <2>1, <2>2, NotARow DEF Ledger, ClaimOfCharge
  <2>4. Happened(c, "refund.succeeded")
    BY <2>1, <2>2, <2>3 DEF Happened
  <2>5. payment[b].status # "NONE"
    <3>1. charges[c] # Unused /\ charges[c].key = b
      BY <1>3, <1>4, KeyAssumption DEF ProviderInv, ClaimsBacked
    <3> QED BY <1>4, <3>1 DEF Ledger, OwnCharge
  <2>6. "refund.succeeded" \in Events
    BY DEF Events
  <2> QED BY <1>6, <2>1, <2>4, <2>5, <2>6
<1> QED BY <1>7, <1>8

-----------------------------------------------------------------------------
(* At the start there is no payment, and the provider knows of nothing. *)
LEMMA FlowStart ==
  ASSUME FlowInit
  PROVE  FlowInv
<1> USE DEF FlowInit
<1>1. \A r \in Request : http[r] = Idle /\ caller[r] = NoCaller
  BY DEF ProviderInit
<1>2. ProviderInv
  <2>1. http \in [Request -> Call \cup {Idle}]
        /\ \A r \in Request : http[r] = Idle /\ http[r].at \notin {"recovering", "opened"}
    BY NotARow DEF ProviderInit
  <2>2. /\ charges = [c \in ChargeId |-> Unused] /\ refunds = [d \in RefundId |-> Unused]
        /\ chargeClaim = [k \in ChargeKey |-> Unclaimed]
        /\ refundClaim = [k \in RefundKey |-> NoRefund] /\ wire = NoWebhooks
    BY DEF ProviderInit
  <2> QED BY <2>1, <2>2, LedgerEmpty
<1>3. NoPayment \in Payment /\ NoPayment.status = "NONE" /\ NoPayment.charge = NONE
      /\ NoPayment.refundKey = FALSE /\ NoPayment.refund = NONE /\ NoPayment.refunded = 0
  BY DEF NoPayment, Payment
<1>4. \A b \in Booking : /\ status[b] = "DRAFT" /\ snapshot[b] = NoPolicy /\ payment[b] = NoPayment
                         /\ cancelling[b] = FALSE /\ instruction[b] = 0
  OBVIOUS
<1>5. FlowTypeOK
  <2>1. ProviderTypeOK
    BY <1>2 DEF ProviderInv
  <2>2. "DRAFT" \in Statuses
    BY DEF Statuses
  <2> HIDE DEF FlowInit
  <2>3. /\ status = [b \in Booking |-> "DRAFT"] /\ lapsed = [b \in Booking |-> FALSE]
        /\ policy \in Policy /\ snapshot = [b \in Booking |-> NoPolicy]
        /\ payment = [b \in Booking |-> NoPayment] /\ applied = [c \in ChargeId |-> {}]
        /\ inbox = NoWebhooks /\ caller = [r \in Request |-> NoCaller]
        /\ cancelling = [b \in Booking |-> FALSE] /\ instruction = [b \in Booking |-> 0]
    BY DEF FlowInit
  <2>4. /\ status \in [Booking -> Statuses] /\ lapsed \in [Booking -> BOOLEAN]
        /\ snapshot \in [Booking -> Policy \cup {NoPolicy}]
        /\ applied \in [ChargeId -> SUBSET Events]
        /\ cancelling \in [Booking -> BOOLEAN] /\ instruction \in [Booking -> Nat]
    BY <2>2, <2>3
  <2>5. payment \in [Booking -> Payment] /\ caller \in [Request -> Caller \cup {NoCaller}]
    BY <1>3, <2>3
  <2>6. inbox \in [ChargeId -> [Events -> Nat]]
    BY <2>3, WireEmptied
  <2> QED BY <2>1, <2>3, <2>4, <2>5, <2>6 DEF FlowTypeOK
<1>6. Ledger
  <2>1. /\ \A c \in ChargeId : charges[c] = Unused /\ refundClaim[c].refund = NONE
        /\ \A d \in RefundId : refunds[d] = Unused
        /\ \A c \in ChargeId, e \in Events : wire[c][e] = 0 /\ inbox[c][e] = 0
    BY KeyAssumption DEF ProviderInit, NoRefund, NoWebhooks
  <2> QED BY <2>1 DEF Ledger, OwnCharge, ClaimOfCharge, OwnRefund, WebhooksTrue
<1>7. Requests
  BY <1>1 DEF Requests, OwnRequest, Accepted, Waiting
<1>8. Bookings
  BY <1>3, <1>4 DEF Bookings, Books, Standing
<1> QED BY <1>2, <1>5, <1>6, <1>7, <1>8 DEF FlowInv

(* Every step keeps it. *)
LEMMA FlowStep ==
  ASSUME FlowInv, [FlowNext]_vars
  PROVE  FlowInv'
<1>1. ASSUME NEW b \in Booking, Hold(b) \/ Expire(b) \/ Cancel(b) PROVE FlowInv'
  BY <1>1, HoldKept
<1>2. ASSUME NEW b \in Booking, Lapse(b) \/ Rearm(b) PROVE FlowInv'
  BY <1>2, LapseKept
<1>3. ASSUME NEW b \in Booking, SettleCancellation(b) PROVE FlowInv'
  BY <1>3, SettleCancellationKept
<1>4. ASSUME NEW b \in Booking, ReplicaDies(b) PROVE FlowInv'
  BY <1>4, ReplicaDiesKept
<1>5. ASSUME NEW b \in Booking, PollCharge(b) \/ PollRefund(b) PROVE FlowInv'
  BY <1>5, PollKept
<1>6. ASSUME NEW p \in Policy, ReplacePolicy(p) PROVE FlowInv'
  BY <1>6, ReplacePolicyKept
<1>7. ASSUME NEW r \in Request, NEW b \in Booking, PayRead(r, b) \/ IssueRefund(r, b) PROVE FlowInv'
  BY <1>7, PayReadKept, IssueRefundKept
<1>8. ASSUME NEW r \in Request, PayWrite(r) PROVE FlowInv'
  BY <1>8, PayWriteKept
<1>9. ASSUME NEW r \in Request, PayAnswered(r) \/ RefundAnswered(r) PROVE FlowInv'
  BY <1>9, PayAnsweredKept, RefundAnsweredKept
<1>10. ASSUME NEW r \in Request, HangUp(r) \/ Forget(r) PROVE FlowInv'
  BY <1>10, HangUpKept, ForgetKept
<1>11. ASSUME NEW c \in ChargeId, NEW e \in Events, Ingest(c, e) \/ LoseDelivery(c, e) PROVE FlowInv'
  BY <1>11, DeliveryKept
<1>12. ASSUME NEW c \in ChargeId, NEW e \in Events, ApplyDelivery(c, e) PROVE FlowInv'
  BY <1>12, ApplyDeliveryKept
<1>13. ASSUME ProviderStep PROVE FlowInv'
  BY <1>13, ProviderStepKept
<1>14. CASE UNCHANGED vars
  <2>1. /\ UNCHANGED <<provider, status, lapsed, policy, snapshot, payment, applied, inbox, caller,
                       cancelling, instruction>>
    BY <1>14 DEF vars, api, rows
  <2>2. /\ status \in [Booking -> Statuses] /\ lapsed \in [Booking -> BOOLEAN] /\ policy \in Policy
        /\ cancelling \in [Booking -> BOOLEAN] /\ instruction \in [Booking -> Nat]
    BY DEF FlowInv, FlowTypeOK
  <2>3. \A b \in Booking : BookingStays(b)
    BY <2>1 DEF BookingStays
  <2> QED BY <2>1, <2>2, <2>3, StatusStep
<1>15. CASE \E b \in Booking : \/ Hold(b) \/ Lapse(b) \/ Rearm(b) \/ Expire(b) \/ Cancel(b)
                              \/ SettleCancellation(b) \/ ReplicaDies(b)
                              \/ PollCharge(b) \/ PollRefund(b)
  BY <1>1, <1>2, <1>3, <1>4, <1>5, <1>15
<1>16. CASE \E r \in Request : \/ \E b \in Booking : PayRead(r, b) \/ IssueRefund(r, b)
                              \/ PayWrite(r) \/ PayAnswered(r) \/ RefundAnswered(r)
                              \/ HangUp(r) \/ Forget(r)
  BY <1>7, <1>8, <1>9, <1>10, <1>16
<1>17. CASE \E c \in ChargeId, e \in Events : Ingest(c, e) \/ LoseDelivery(c, e) \/ ApplyDelivery(c, e)
  BY <1>11, <1>12, <1>17
<1> HIDE DEF FlowInv
<1> QED BY <1>6, <1>13, <1>14, <1>15, <1>16, <1>17 DEF FlowNext

(* The inductive invariant of payments, whatever is lost, repeated, late or *)
(* restarted, for any number of bookings, requests and webhooks.            *)
THEOREM FlowInvariant == FlowSpec => []FlowInv
<1>1. FlowInit => FlowInv
  BY FlowStart
<1>2. FlowInv /\ [FlowNext]_vars => FlowInv'
  BY FlowStep
<1> QED BY <1>1, <1>2, PTL DEF FlowSpec

(* Every variable keeps its type. *)
THEOREM FlowTypeCorrect == FlowSpec => []FlowTypeOK
<1>1. FlowInv => FlowTypeOK
  BY DEF FlowInv
<1> QED BY <1>1, FlowInvariant, PTL

(* The refunds that are minted for a booking are of its own charge, and     *)
(* owed.                                                                    *)
LEMMA ReturnedOwed ==
  ASSUME FlowInv, NEW b \in Booking, NEW d \in ReturnedTo(b)
  PROVE  /\ d \in RefundId /\ payment[b].refundKey /\ refunds[d].amount \in Terms(b)
         /\ refundClaim[payment[b].charge].refund = d
<1> USE DEF FlowInv
<1>1. d \in RefundId /\ refunds[d] # Unused /\ charges[refunds[d].charge].reference = b
  BY DEF ReturnedTo, Minted, ProviderInv, ProviderTypeOK
<1>2. PICK c \in ChargeId : c = refunds[d].charge
  BY <1>1 DEF ProviderInv, ProviderTypeOK, Refund
<1>3. charges[c] # Unused
  BY <1>1, <1>2, NotARow DEF ProviderInv, RefundsBacked, ReturnedTo
<1>4. c = chargeClaim[b].charge
  BY <1>1, <1>2, <1>3 DEF Ledger, OwnCharge
<1> HIDE DEF FlowInv
<1>5. /\ refundClaim[c].refund = d /\ payment[b].charge = c /\ payment[b].refundKey
      /\ refunds[d].amount \in Terms(b)
  <2>1. d \in RefundId /\ refunds[d] # Unused /\ refunds[d].charge = c
    BY <1>1, <1>2
  <2> QED BY <2>1, <1>4, RefundOfBooking
<1> QED BY <1>1, <1>5

(* A recorded outcome is the provider's. *)
LEMMA CapturedOnBooks ==
  ASSUME FlowInv, NEW b \in Booking, payment[b].status \in {"SUCCEEDED", "REFUNDED"}
  PROVE  Captured(b) /\ payment[b].charge = chargeClaim[b].charge
<1>1. Books(b)
  BY DEF FlowInv, Bookings
<1> QED BY <1>1 DEF Books, Captured

(* INV-4 and its mirror: a CONFIRMED booking is paid for by a charge that   *)
(* was captured, and nothing has gone back or is about to, although         *)
(* deliveries repeat and polls and workers race.                            *)
THEOREM ConfirmedBookingsArePaid == FlowSpec => []ConfirmedIsPaid
<1>1. FlowInv => ConfirmedIsPaid
  <2> SUFFICES ASSUME FlowInv, NEW b \in Booking, status[b] = "CONFIRMED"
               PROVE  /\ payment[b].status = "SUCCEEDED" /\ Captured(b)
                      /\ ~payment[b].refundKey /\ instruction[b] = 0 /\ ReturnedTo(b) = {}
    BY DEF ConfirmedIsPaid
  <2>1. Standing(b) /\ instruction[b] \in Nat
    BY DEF FlowInv, FlowTypeOK, Bookings
  <2>2. payment[b].status = "SUCCEEDED" /\ ~payment[b].refundKey /\ instruction[b] = 0
    BY <2>1 DEF Standing
  <2> QED BY <2>2, CapturedOnBooks, ReturnedOwed
<1> QED BY <1>1, FlowInvariant, PTL

(* INV-5 as far as the API can see: money it knows was captured is behind a *)
(* CONFIRMED booking, on its way back under a persisted key, or belongs to  *)
(* a booking cancelled after it had been confirmed.                         *)
THEOREM CapturesAreAccountedFor == FlowSpec => []CaptureAccounted
<1>1. FlowInv => CaptureAccounted
  BY DEF FlowInv, Bookings, Standing, CaptureAccounted
<1> QED BY <1>1, FlowInvariant, PTL

(* The API's books never contradict the provider's ledger, to the minor     *)
(* unit of a refund.                                                        *)
THEOREM BooksMatchTheLedger == FlowSpec => []BooksAgree
<1>1. FlowInv => BooksAgree
  <2> SUFFICES ASSUME FlowInv, NEW b \in Booking
               PROVE  /\ payment[b].charge \in {NONE, chargeClaim[b].charge}
                      /\ payment[b].status \in {"SUCCEEDED", "REFUNDED"} => Captured(b)
                      /\ payment[b].status = "FAILED" => charges[payment[b].charge].status = "failed"
                      /\ payment[b].status = "REFUNDED" =>
                           /\ refunds[payment[b].refund].materialised
                           /\ {payment[b].refund} = ReturnedTo(b)
                           /\ payment[b].refunded = refunds[payment[b].refund].amount
    BY DEF BooksAgree
  <2>1. Books(b) /\ payment[b] \in Payment
    BY DEF FlowInv, FlowTypeOK, Bookings
  <2>2. ASSUME payment[b].status = "REFUNDED" PROVE {payment[b].refund} = ReturnedTo(b)
    <3>1. PICK c, d : c = payment[b].charge /\ d = payment[b].refund
      OBVIOUS
    <3>2. /\ c # NONE /\ d # NONE /\ d = refundClaim[c].refund /\ refunds[d].materialised
          /\ c = chargeClaim[b].charge
      BY <2>1, <2>2, <3>1 DEF Books
    <3>3. c \in ChargeId /\ d \in RefundId
      BY <2>1, <3>1, <3>2 DEF Payment
    <3>4. refunds[d] # Unused /\ refunds[d].charge = c
      BY <3>2, <3>3, NotARow DEF FlowInv, Ledger, ClaimOfCharge
    <3>5. charges[c] # Unused /\ charges[c].key = b
      BY <3>2, KeyAssumption DEF FlowInv, ProviderInv, ClaimsBacked
    <3>6. charges[c].reference = b
      BY <3>3, <3>5 DEF FlowInv, Ledger, OwnCharge
    <3>7. d \in ReturnedTo(b)
      BY <3>3, <3>4, <3>6 DEF ReturnedTo, Minted, FlowInv, ProviderInv, ProviderTypeOK
    <3>8. \A x \in ReturnedTo(b) : x = d
      BY <3>1, <3>2, ReturnedOwed
    <3> QED BY <3>1, <3>7, <3>8
  <2> QED BY <2>1, <2>2, CapturedOnBooks DEF Books
<1> QED BY <1>1, FlowInvariant, PTL

(* The customer is refunded by the terms frozen when the booking was        *)
(* confirmed, and in full when the capture confirmed nothing.               *)
THEOREM RefundsFollowTheTerms == FlowSpec => []RefundByAgreedTerms
<1>1. FlowInv => RefundByAgreedTerms
  BY ReturnedOwed DEF RefundByAgreedTerms, Terms
<1> QED BY <1>1, FlowInvariant, PTL

(* A delivery, however early, finds the payment it is about. *)
THEOREM DeliveriesFindTheirPayment == FlowSpec => []DeliveriesMatch
<1>1. FlowInv => DeliveriesMatch
  <2> SUFFICES ASSUME FlowInv, NEW c \in ChargeId, NEW e \in Events, inbox[c][e] > 0
               PROVE  PaymentFor(c) # {}
    BY DEF DeliveriesMatch
  <2> QED BY DeliveryFinds
<1> QED BY <1>1, FlowInvariant, PTL

(* The report never shows money that moved without reason: no confirmation  *)
(* or refund without a capture, and no refund above the price.              *)
THEOREM ImpossibleDiscrepancies == FlowSpec => []ImpossibleClassesEmpty
<1>1. FlowInv => ImpossibleClassesEmpty
  <2> SUFFICES ASSUME FlowInv
               PROVE  /\ confirmation_without_capture = {}
                      /\ refund_without_capture = {}
                      /\ over_refunded = {}
    BY DEF ImpossibleClassesEmpty
  <2>1. \A b \in Booking : Books(b) /\ Standing(b) /\ payment[b] \in Payment
    BY DEF FlowInv, FlowTypeOK, Bookings
  <2>2. confirmation_without_capture = {}
    BY <2>1 DEF confirmation_without_capture, Standing
  <2>3. refund_without_capture = {}
    <3> SUFFICES ASSUME NEW b \in Booking, payment[b].status = "REFUNDED" \/ payment[b].refunded > 0
                 PROVE  /\ payment[b].charge # NONE
                        /\ "charge.succeeded" \in applied[payment[b].charge]
      BY DEF refund_without_capture, Settled
    <3>1. payment[b].status = "REFUNDED"
      BY <2>1 DEF Books
    <3> QED BY <2>1, <3>1 DEF Books
  <2>4. over_refunded = {}
    <3> SUFFICES ASSUME NEW b \in Booking, payment[b].refunded > Total(b)
                 PROVE  FALSE
      BY DEF over_refunded, Settled
    <3>1. Total(b) \in Nat
      BY KeyAssumption DEF Total
    <3>2. payment[b].refunded \in Nat
      BY <2>1 DEF Payment
    <3>3. payment[b].status = "REFUNDED"
      BY <2>1, <3>1, <3>2 DEF Books
    <3>4. PICK c, d : c = payment[b].charge /\ d = payment[b].refund
      OBVIOUS
    <3>5. /\ c # NONE /\ d # NONE /\ d = refundClaim[c].refund /\ refunds[d].materialised
          /\ c = chargeClaim[b].charge /\ payment[b].refunded = refunds[d].amount
      BY <2>1, <3>3, <3>4 DEF Books
    <3>6. c \in ChargeId /\ d \in RefundId
      BY <2>1, <3>4, <3>5 DEF Payment
    <3>7. refunds[d] # Unused /\ refunds[d].charge = c
      BY <3>5, <3>6, NotARow DEF FlowInv, Ledger, ClaimOfCharge
    <3>8. refunds[d].amount \in Terms(b)
      BY <3>5, <3>6, <3>7, RefundOfBooking
    <3>9. refunds[d].amount \in 0..Total(b)
      BY <3>8, TermsBounded DEF FlowInv
    <3> QED BY <3>1, <3>5, <3>9
  <2> QED BY <2>2, <2>3, <2>4
<1> QED BY <1>1, FlowInvariant, PTL

-----------------------------------------------------------------------------
(* An effect moves its booking along a legal edge or not at all: the lapsed *)
(* booking that onChargeSucceeded expires waits for its payment.            *)
LEMMA EffectIsLegal ==
  ASSUME FlowTypeOK, NEW b \in Booking, NEW c, NEW e, Effect(b, c, e)
  PROVE  \A x \in Booking : \/ status'[x] = status[x]
                             \/ isLegalTransition(status[x], status'[x])
<1>1. status \in [Booking -> Statuses]
  BY DEF FlowTypeOK
<1>2. CASE onChargeSucceeded(b, c)
  BY <1>1, <1>2, LegalFrom DEF onChargeSucceeded, Transition
<1>3. CASE onChargeFailed(b, c)
  BY <1>1, <1>3 DEF onChargeFailed, Transition
<1>4. CASE onRefundSucceeded(b, c)
  BY <1>1, <1>4 DEF onRefundSucceeded, Transition
<1> QED BY <1>2, <1>3, <1>4 DEF Effect

(* What payments do to bookings.status is what BookingLifecycle promises:   *)
(* every step, of customers, replicas, webhooks and polls, moves bookings   *)
(* along legal edges only.                                                  *)
THEOREM PaymentsImplementLifecycle == FlowSpec => FlowIsLegal
<1>1. FlowInit => Lifecycle!Init
  BY DEF FlowInit, Lifecycle!Init
<1>2. FlowInv /\ FlowInv' /\ [FlowNext]_vars => [Lifecycle!Move]_status
  <2> SUFFICES ASSUME FlowInv, FlowInv', [FlowNext]_vars, status' # status
               PROVE  \A x \in Booking : \/ status'[x] = status[x]
                                          \/ isLegalTransition(status[x], status'[x])
    BY DEF FlowInv, FlowTypeOK, Lifecycle!Move, Lifecycle!Statuses, Statuses,
           Lifecycle!isLegalTransition, isLegalTransition,
           Lifecycle!LEGAL_TRANSITIONS, LEGAL_TRANSITIONS
  <2>0. FlowTypeOK /\ status \in [Booking -> Statuses]
    BY DEF FlowInv, FlowTypeOK
  <2>1. ASSUME NEW b \in Booking, NEW to, Transition(b, to)
        PROVE  \A x \in Booking : \/ status'[x] = status[x]
                                   \/ isLegalTransition(status[x], status'[x])
    BY <2>0, <2>1 DEF Transition
  <2>2. ASSUME NEW b \in Booking,
               \/ Hold(b) \/ Lapse(b) \/ Rearm(b) \/ Expire(b) \/ Cancel(b)
               \/ SettleCancellation(b) \/ ReplicaDies(b)
        PROVE  \E to : Transition(b, to)
    BY <2>2 DEF Hold, Lapse, Rearm, Expire, Cancel, SettleCancellation, ReplicaDies, rows
  <2>3. ASSUME NEW r \in Request, PayWrite(r)
        PROVE  \E b \in Booking : Transition(b, "PENDING_PAYMENT")
    <3>1. caller[r].booking \in Booking
      BY <2>3 DEF PayWrite, FlowInv, FlowTypeOK, Caller, NoCaller
    <3> QED BY <2>3, <3>1 DEF PayWrite
  <2>4. ASSUME NEW b \in Booking, PollCharge(b) \/ PollRefund(b)
        PROVE  \E c, e : Effect(b, c, e)
    BY <2>4 DEF PollCharge, PollRefund
  <2>5. ASSUME NEW c \in ChargeId, NEW e \in Events, ApplyDelivery(c, e)
        PROVE  \E b \in Booking : Effect(b, c, e)
    BY <2>5 DEF ApplyDelivery, PaymentFor, OwnerOf, Adoptable
  <2>6. ASSUME NEW r \in Request
        PROVE  ~(\/ \E b \in Booking : PayRead(r, b) \/ IssueRefund(r, b)
                \/ PayAnswered(r) \/ RefundAnswered(r) \/ HangUp(r) \/ Forget(r))
    BY DEF PayRead, IssueRefund, PayAnswered, RefundAnswered, HangUp, Forget, rows, api
  <2>7. ASSUME NEW c, NEW e PROVE ~(Ingest(c, e) \/ LoseDelivery(c, e))
    BY DEF Ingest, LoseDelivery, api, rows
  <2>8. ~ProviderStep /\ ~UNCHANGED vars /\ \A p \in Policy : ~ReplacePolicy(p)
    BY DEF ProviderStep, vars, api, rows, ReplacePolicy
  <2>9. CASE \E b \in Booking : \/ Hold(b) \/ Lapse(b) \/ Rearm(b) \/ Expire(b) \/ Cancel(b)
                               \/ SettleCancellation(b) \/ ReplicaDies(b)
                               \/ PollCharge(b) \/ PollRefund(b)
    BY <2>0, <2>1, <2>2, <2>4, <2>9, EffectIsLegal
  <2>10. CASE \E r \in Request : \/ \E b \in Booking : PayRead(r, b) \/ IssueRefund(r, b)
                                \/ PayWrite(r) \/ PayAnswered(r) \/ RefundAnswered(r)
                                \/ HangUp(r) \/ Forget(r)
    BY <2>1, <2>3, <2>6, <2>10
  <2>11. CASE \E c \in ChargeId, e \in Events :
                Ingest(c, e) \/ LoseDelivery(c, e) \/ ApplyDelivery(c, e)
    BY <2>0, <2>5, <2>7, <2>11, EffectIsLegal
  <2> HIDE DEF FlowInv
  <2> QED BY <2>8, <2>9, <2>10, <2>11 DEF FlowNext
<1> QED
  BY <1>1, <1>2, FlowInvariant, PTL DEF FlowSpec, FlowIsLegal, Lifecycle!Spec

-----------------------------------------------------------------------------
(***************************************************************************)
(* The revenue report never claims money that is not there.  A booking     *)
(* that counts as revenue was captured and nothing of it went back; what   *)
(* went back went to other captured bookings, each of which covers its     *)
(* own refund.                                                             *)
(***************************************************************************)
(* Revenue is of captured bookings, and of those only whose price is still  *)
(* with the provider.                                                       *)
LEMMA EarningIsKept ==
  ASSUME FlowInv, NEW b \in Booking, status[b] \in {"CONFIRMED", "COMPLETED"}
  PROVE  Captured(b) /\ ReturnedTo(b) = {}
<1>1. Standing(b) /\ status[b] = "CONFIRMED"
  BY DEF FlowInv, Bookings, Standing
<1>2. payment[b].status = "SUCCEEDED" /\ ~payment[b].refundKey
  BY <1>1 DEF Standing
<1> QED BY <1>2, CapturedOnBooks, ReturnedOwed

(* What went back to a booking was captured for it, and covers the refund.  *)
LEMMA ReturnedIsCovered ==
  ASSUME FlowInv, NEW b \in Booking, NEW d \in ReturnedTo(b)
  PROVE  /\ d \in RefundId /\ Captured(b) /\ charges[refunds[d].charge].reference = b
         /\ refunds[d].amount \in Nat /\ refunds[d].amount <= Total(b)
         /\ \A x \in ReturnedTo(b) : x = d
<1>1. /\ d \in RefundId /\ payment[b].refundKey /\ refunds[d].amount \in Terms(b)
      /\ \A x \in ReturnedTo(b) : refundClaim[payment[b].charge].refund = x
  BY ReturnedOwed
<1>2. Books(b) /\ FlowTypeOK
  BY DEF FlowInv, Bookings
<1>3. payment[b].status \in {"SUCCEEDED", "REFUNDED"}
  BY <1>1, <1>2 DEF Books
<1>4. refunds[d].amount \in Nat /\ refunds[d].amount <= Total(b)
  BY <1>1, <1>2, TermsBounded
<1> QED BY <1>1, <1>3, <1>4, CapturedOnBooks DEF ReturnedTo

(* The net revenue of any range is at most what the provider has captured   *)
(* for its bookings and not given back, also while refunds are on their     *)
(* way.                                                                     *)
THEOREM RevenueIsThere == FlowSpec => []RevenueNeverOverstated
<1>1. FlowInv => RevenueNeverOverstated
  <2> SUFFICES ASSUME FlowInv, NEW range \in SUBSET Booking
               PROVE  net(range) <= Kept(range)
    BY DEF RevenueNeverOverstated
  <2> DEFINE E == Earning(range)
             C == CapturedIn(range)
             R == ReturnedIn(range)
             price == [b \in range |-> Total(b)]
             back == [d \in R |-> refunds[d].amount]
             booked == [b \in range |-> payment[b].refunded]
             of == [d \in R |-> charges[refunds[d].charge].reference]
  <2>1. E \subseteq C /\ C \subseteq range /\ IsFiniteSet(range) /\ IsFiniteSet(C)
    <3>1. \A b \in E : Captured(b)
      BY EarningIsKept DEF Earning
    <3>2. IsFiniteSet(range)
      BY FiniteAssumption, FS_Subset
    <3>3. C \subseteq range
      BY DEF CapturedIn
    <3>4. E \subseteq C
      BY <3>1 DEF Earning, CapturedIn
    <3> QED BY <3>2, <3>3, <3>4, FS_Subset
  <2>2. IsFiniteSet(E) /\ IsFiniteSet(C \ E)
    BY <2>1, FS_Subset
  <2>3. \A b \in range : price[b] \in Nat
    <3> SUFFICES ASSUME NEW b \in range PROVE Total(b) \in Nat
      OBVIOUS
    <3> QED BY KeyAssumption DEF Total
  <2>4. \A b \in range : booked[b] \in Nat
    BY DEF FlowInv, FlowTypeOK, Payment
  <2>5. ASSUME NEW d \in R
        PROVE  /\ of[d] \in C \ E /\ back[d] \in Nat /\ back[d] <= price[of[d]]
               /\ \A x \in R : of[x] = of[d] => x = d
    <3>1. PICK b \in range : d \in ReturnedTo(b)
      BY DEF ReturnedIn
    <3>2. /\ Captured(b) /\ charges[refunds[d].charge].reference = b
          /\ refunds[d].amount \in Nat /\ refunds[d].amount <= Total(b)
          /\ \A x \in ReturnedTo(b) : x = d
      BY <3>1, ReturnedIsCovered
    <3>3. b \notin E
      BY <3>1, EarningIsKept DEF Earning
    <3>4. b \in C
      BY <3>2 DEF CapturedIn
    <3>5. \A x \in R : charges[refunds[x].charge].reference = b => x \in ReturnedTo(b)
      BY DEF ReturnedIn, ReturnedTo
    <3> QED BY <3>2, <3>3, <3>4, <3>5
  <2> HIDE DEF E, C, R, price, back, booked, of
  <2>6. SumOver(price, C) = SumOver(price, E) + SumOver(price, C \ E)
    <3>1. C = E \cup (C \ E) /\ E \cap (C \ E) = {} /\ \A b \in E \cup (C \ E) : price[b] \in Nat
      BY <2>1, <2>3
    <3>2. SumOver(price, E \cup (C \ E)) = SumOver(price, E) + SumOver(price, C \ E)
      BY <2>2, <3>1, SumDisjoint
    <3> QED BY <3>1, <3>2
  <2>7. SumOver(back, R) <= SumOver(price, C \ E) /\ SumOver(back, R) \in Nat
    <3>1. \A b \in C \ E : price[b] \in Nat
      BY <2>1, <2>3
    <3>2. SumOver(back, R) <= SumOver(price, C \ E)
      BY <2>2, <2>5, <3>1, SumCovered
    <3>3. IsFiniteSet(R)
      <4>1. of \in Injection(R, C \ E)
        BY <2>5 DEF of, Injection, IsInjective
      <4> QED BY <2>2, <4>1, FS_Injection
    <3>4. SumOver(back, R) \in Nat
      BY <2>5, <3>3, SumIsNat
    <3> QED BY <3>2, <3>4
  <2>8. SumOver(price, E) \in Nat /\ SumOver(price, C \ E) \in Nat /\ SumOver(booked, range) \in Nat
    BY <2>1, <2>2, <2>3, <2>4, SumIsNat
  <2>9. SumOver(price, E) - SumOver(booked, range) <= SumOver(price, C) - SumOver(back, R)
    BY <2>6, <2>7, <2>8
  <2> QED BY <2>9 DEF net, Kept, gross, refunded, E, C, R, price, back, booked
<1> QED BY <1>1, FlowInvariant, PTL
=============================================================================
