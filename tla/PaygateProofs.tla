---------------------------- MODULE PaygateProofs ----------------------------
(***************************************************************************)
(* What holds of the provider whoever calls it: an invariant of its ledger *)
(* and of the handlers in progress, and that each of its steps keeps it.   *)
(* The modules that compose the provider with callers build on this one.   *)
(***************************************************************************)
EXTENDS Paygate, TLAPS

(* A request is of one of the two kinds, and a handler part way through     *)
(* holds the row that its key stands for.                                   *)
ChargeRequest(q) == q.op = "charge" /\ q.key \in ChargeKey /\ q.body.of \in Reference
RefundRequest(q) == q.op = "refund" /\ q.key \in RefundKey /\ q.body.of \in ChargeId

InOrder(r) == http[r] # Idle =>
  /\ ChargeRequest(http[r]) \/ RefundRequest(http[r])
  /\ http[r].at # "idle"
  /\ http[r].at = "recovering" => http[r].op = "charge"
  /\ http[r].at \in {"recovering", "opened"} /\ http[r].op = "charge" =>
       http[r].id = chargeClaim[http[r].key].charge /\ http[r].id # NONE
  /\ http[r].at = "opened" /\ http[r].op = "refund" =>
       http[r].id = refundClaim[http[r].key].refund /\ http[r].id # NONE

RequestsInOrder == \A r \in Request : InOrder(r)

(* A key stands for one charge, and a claim for a charge that is there. *)
KeysUnique == \A c, d \in Minted(charges) : charges[c].key = charges[d].key => c = d

ClaimsBacked ==
  \A k \in ChargeKey : LET c == chargeClaim[k].charge IN
    c # NONE => charges[c] # Unused /\ charges[c].key = k

(* The refund's claim and its row were written together. *)
RefundClaimsBacked ==
  \A k \in RefundKey : LET claim == refundClaim[k] IN
    /\ claim.row = "refund" <=> claim.refund # NONE
    /\ claim.row = "refund" =>
         /\ refunds[claim.refund] # Unused
         /\ refunds[claim.refund].charge = claim.body.of
         /\ refunds[claim.refund].amount = claim.body.amount

(* A charge has an outcome exactly when it has come to life. *)
OutcomesFinal ==
  \A c \in Minted(charges) : charges[c].materialised <=> charges[c].status # "processing"

(* Money goes back only from a charge that was captured. *)
RefundsBacked ==
  \A d \in Minted(refunds) : charges[refunds[d].charge].status = "succeeded"

ProviderInv == /\ ProviderTypeOK /\ RequestsInOrder /\ KeysUnique /\ ClaimsBacked
               /\ RefundClaimsBacked /\ OutcomesFinal /\ RefundsBacked

-----------------------------------------------------------------------------
(* A row that is not there is neither a charge nor a refund, and an idle    *)
(* slot is not a call.                                                      *)
LEMMA NotARow ==
  /\ Unused \notin Charge /\ Unused.materialised = FALSE /\ Unused.status = "unused"
  /\ Unused \notin Refund
  /\ Idle \notin Call /\ Idle.at = "idle"
<1>1. Unused \notin Charge /\ Unused.materialised = FALSE /\ Unused.status = "unused"
  BY DEF Unused, Charge
<1>2. Unused \notin Refund
  <2> SUFFICES ASSUME Unused \in Refund PROVE FALSE
    OBVIOUS
  <2>1. "charge" \in DOMAIN Unused
    BY DEF Refund
  <2> QED BY <2>1 DEF Unused
<1>3. Idle \notin Call /\ Idle.at = "idle"
  <2>1. ASSUME Idle \in Call PROVE FALSE
    <3>1. "op" \in DOMAIN Idle
      BY <2>1 DEF Call
    <3> QED BY <3>1 DEF Idle
  <2> QED BY <2>1 DEF Idle
<1> QED BY <1>1, <1>2, <1>3

(* The updates a handler makes to its request. *)
LEMMA CallUpdates ==
  ASSUME NEW q \in Call, NEW at \in {"recovering", "opened", "answered"}, NEW code \in Codes,
         NEW id \in Nat
  PROVE  /\ [q EXCEPT !.at = at, !.id = id] \in Call
         /\ [q EXCEPT !.at = at, !.code = code, !.id = id] \in Call
  BY DEF Call

(* Answering a request changes nothing else of it, and no other request. *)
LEMMA Answering ==
  ASSUME ProviderInv, NEW r \in Request, http[r] # Idle,
         NEW code \in Codes, NEW id \in Nat, Answer(r, code, id)
  PROVE  /\ http' \in [Request -> Call \cup {Idle}]
         /\ \A q \in Request : q # r => http'[q] = http[q]
         /\ http'[r] # Idle /\ http'[r].at = "answered"
         /\ http'[r].code = code /\ http'[r].id = id
         /\ http'[r].op = http[r].op /\ http'[r].key = http[r].key /\ http'[r].body = http[r].body
<1>1. http[r] \in Call /\ http \in [Request -> Call \cup {Idle}]
  BY DEF ProviderInv, ProviderTypeOK
<1> DEFINE new == [http[r] EXCEPT !.at = "answered", !.code = code, !.id = id]
<1>2. /\ new \in Call /\ new.at = "answered" /\ new.code = code /\ new.id = id
      /\ new.op = http[r].op /\ new.key = http[r].key /\ new.body = http[r].body
  BY <1>1, CallUpdates DEF Call
<1>3. http' = [http EXCEPT ![r] = new]
  BY <1>1 DEF Answer
<1> QED BY <1>1, <1>2, <1>3, NotARow

(* So does moving a handler on to the row it has found. *)
LEMMA Moving ==
  ASSUME ProviderInv, NEW r \in Request, http[r] # Idle,
         NEW at \in {"recovering", "opened"}, NEW id \in Nat,
         Proceed(r, at, id)
  PROVE  /\ http' \in [Request -> Call \cup {Idle}]
         /\ \A q \in Request : q # r => http'[q] = http[q]
         /\ http'[r] # Idle /\ http'[r].at = at /\ http'[r].id = id
         /\ http'[r].op = http[r].op /\ http'[r].key = http[r].key /\ http'[r].body = http[r].body
<1>1. http[r] \in Call /\ http \in [Request -> Call \cup {Idle}]
  BY DEF ProviderInv, ProviderTypeOK
<1> DEFINE new == [http[r] EXCEPT !.at = at, !.id = id]
<1>2. /\ new \in Call /\ new.at = at /\ new.id = id
      /\ new.op = http[r].op /\ new.key = http[r].key /\ new.body = http[r].body
  BY <1>1, CallUpdates DEF Call
<1>3. http' = [http EXCEPT ![r] = new]
  BY <1>1 DEF Proceed
<1> QED BY <1>1, <1>2, <1>3, NotARow

(* Claims only ever come to be: a handler's row stays the row of its key. *)
ClaimsStay ==
  /\ \A k \in ChargeKey : chargeClaim[k].charge # NONE => chargeClaim'[k].charge = chargeClaim[k].charge
  /\ \A k \in RefundKey : refundClaim[k].refund # NONE => refundClaim'[k].refund = refundClaim[k].refund

(* A request that does not move stays in order while claims keep their      *)
(* rows.                                                                    *)
LEMMA OthersInOrder ==
  ASSUME ProviderInv, ClaimsStay, NEW q \in Request, http'[q] = http[q]
  PROVE  InOrder(q)'
<1>1. InOrder(q)
  BY DEF ProviderInv, RequestsInOrder
<1> QED BY <1>1 DEF ClaimsStay, InOrder, ChargeRequest, RefundRequest

(* An answered request needs no row. *)
LEMMA AnsweredInOrder ==
  ASSUME ProviderInv, NEW r \in Request, http[r] # Idle, http'[r].at = "answered",
         http'[r].op = http[r].op, http'[r].key = http[r].key, http'[r].body = http[r].body
  PROVE  InOrder(r)'
<1>1. ChargeRequest(http[r]) \/ RefundRequest(http[r])
  BY DEF ProviderInv, RequestsInOrder, InOrder
<1>2. ChargeRequest(http'[r]) \/ RefundRequest(http'[r])
  BY <1>1 DEF ChargeRequest, RefundRequest
<1> QED BY <1>2 DEF InOrder, ChargeRequest, RefundRequest

(* A step that answers a request and leaves the ledger alone. *)
LEMMA OnlyAnswers ==
  ASSUME ProviderInv, NEW r \in Request, http[r] # Idle,
         NEW code \in Codes, NEW id \in Nat, Answer(r, code, id),
         UNCHANGED <<charges, refunds, chargeClaim, refundClaim, wire>>
  PROVE  ProviderInv'
<1>1. ClaimsStay
  BY DEF ClaimsStay
<1>2. ProviderTypeOK'
  BY Answering DEF ProviderInv, ProviderTypeOK
<1>3. RequestsInOrder'
  BY <1>1, Answering, OthersInOrder, AnsweredInOrder DEF RequestsInOrder
<1> QED BY <1>2, <1>3 DEF ProviderInv, KeysUnique, ClaimsBacked, RefundClaimsBacked,
                          OutcomesFinal, RefundsBacked, Minted

-----------------------------------------------------------------------------
(* A drawn id is one of the fresh ones. *)
LEMMA Drawn ==
  ASSUME NEW fresh, fresh # {}
  PROVE  NextId(fresh) \in fresh
  BY DEF NextId

(* A charge is inserted under a key that no charge has. *)
LEMMA ChargeInserted ==
  ASSUME ProviderInv, NEW c \in ChargeId, charges[c] = Unused, NEW new \in Charge,
         ~KeyTaken(new.key), new.materialised <=> new.status # "processing",
         charges' = [charges EXCEPT ![c] = new],
         UNCHANGED <<refunds, refundClaim>>
  PROVE  /\ charges' \in [ChargeId -> Charge \cup {Unused}]
         /\ charges'[c] = new /\ \A x \in ChargeId : x # c => charges'[x] = charges[x]
         /\ KeysUnique' /\ RefundClaimsBacked' /\ OutcomesFinal' /\ RefundsBacked'
<1> USE DEF ProviderInv
<1>1. /\ charges' \in [ChargeId -> Charge \cup {Unused}]
      /\ charges'[c] = new /\ \A x \in ChargeId : x # c => charges'[x] = charges[x]
  BY DEF ProviderTypeOK
<1>2. Minted(charges') = Minted(charges) \cup {c} /\ c \notin Minted(charges)
  BY <1>1, NotARow DEF Minted, ProviderTypeOK
<1>3. KeysUnique'
  <2>1. \A x \in Minted(charges) : charges[x].key # new.key
    BY DEF KeyTaken
  <2>2. Minted(charges) \subseteq ChargeId
    BY DEF Minted, ProviderTypeOK
  <2> QED BY <1>1, <1>2, <2>1, <2>2 DEF KeysUnique
<1>4. RefundClaimsBacked'
  BY DEF RefundClaimsBacked
<1>5. OutcomesFinal'
  <2>1. Minted(charges) \subseteq ChargeId
    BY DEF Minted, ProviderTypeOK
  <2> QED BY <1>1, <1>2, <2>1 DEF OutcomesFinal
<1>6. RefundsBacked'
  <2>1. \A d \in Minted(refunds) : refunds[d].charge \in ChargeId
    BY NotARow DEF Minted, ProviderTypeOK, Refund
  <2> QED BY <1>1, <2>1, NotARow DEF RefundsBacked, Minted
<1> QED BY <1>1, <1>3, <1>4, <1>5, <1>6

(* The first transaction of a charge: a new claim and charge, or the answer *)
(* of the claim that is there.                                              *)
LEMMA OpenChargeKept ==
  ASSUME ProviderInv, NEW r \in Request, OpenCharge(r)
  PROVE  ProviderInv'
<1> USE DEF ProviderInv
<1> DEFINE k == http[r].key
           body == http[r].body
           claim == chargeClaim[k]
<1>1. http[r] # Idle /\ http[r] \in Call
  BY NotARow DEF OpenCharge, ProviderTypeOK
<1>2. k \in ChargeKey /\ body.of \in Reference /\ body \in Body
  BY <1>1 DEF OpenCharge, RequestsInOrder, InOrder, ChargeRequest, RefundRequest, Call
<1>3. claim \in [charge : ChargeId \cup {NONE}, body : Body \cup {NoBody},
                 outcome : {"accepted", "failed_500", "none"}]
  BY <1>2 DEF ProviderTypeOK
<1>4. {202, 409, 500} \subseteq Codes /\ NONE \in Nat /\ ChargeId \subseteq Nat
  BY LedgerAssumption DEF Codes, NONE
<1>5. UNCHANGED <<refunds, refundClaim, wire>>
  BY DEF OpenCharge
<1>6. CASE UNCHANGED <<charges, chargeClaim>> /\ \E code \in Codes, id \in Nat : Answer(r, code, id)
  BY <1>1, <1>5, <1>6, OnlyAnswers
<1>7. CASE /\ claim.charge # NONE /\ Proceed(r, "recovering", claim.charge)
           /\ UNCHANGED <<charges, chargeClaim>>
  <2>1. claim.charge \in Nat
    BY <1>3, <1>4
  <2>2. /\ http' \in [Request -> Call \cup {Idle}]
        /\ \A q \in Request : q # r => http'[q] = http[q]
        /\ http'[r].at = "recovering" /\ http'[r].id = claim.charge
        /\ http'[r].op = http[r].op /\ http'[r].key = http[r].key /\ http'[r].body = http[r].body
    BY <1>1, <1>7, <2>1, Moving
  <2>3. ClaimsStay
    BY <1>5, <1>7 DEF ClaimsStay
  <2>4. InOrder(r)'
    BY <1>2, <1>7, <2>2 DEF InOrder, OpenCharge, ChargeRequest
  <2>5. RequestsInOrder'
    BY <2>2, <2>3, <2>4, OthersInOrder DEF RequestsInOrder
  <2>6. ProviderTypeOK'
    BY <1>5, <1>7, <2>2 DEF ProviderTypeOK
  <2> QED BY <1>5, <1>7, <2>5, <2>6 DEF KeysUnique, ClaimsBacked, RefundClaimsBacked,
                                        OutcomesFinal, RefundsBacked, Minted
<1>8. ASSUME claim.charge = NONE, ~KeyTaken(k), FreshCharges # {}, NEW fails \in BOOLEAN,
             charges' = [charges EXCEPT ![NextId(FreshCharges)] =
               [key |-> k, reference |-> body.of, amount |-> body.amount,
                status |-> "processing", materialised |-> FALSE, refunded |-> 0]],
             chargeClaim' = [chargeClaim EXCEPT ![k] =
               [charge |-> NextId(FreshCharges), body |-> body,
                outcome |-> IF fails THEN "failed_500" ELSE "accepted"]],
             IF fails THEN Answer(r, 500, NONE) ELSE Proceed(r, "opened", NextId(FreshCharges))
      PROVE  ProviderInv'
  <2> DEFINE c == NextId(FreshCharges)
             new == [key |-> k, reference |-> body.of, amount |-> body.amount,
                     status |-> "processing", materialised |-> FALSE, refunded |-> 0]
             newClaim == [charge |-> c, body |-> body,
                          outcome |-> IF fails THEN "failed_500" ELSE "accepted"]
  <2>1. c \in FreshCharges
    BY <1>8, Drawn
  <2>2. c \in ChargeId /\ charges[c] = Unused /\ c \in Nat /\ c # NONE
    BY <2>1, LedgerAssumption DEF FreshCharges, Minted, ProviderTypeOK, NONE
  <2>3. new \in Charge /\ new.key = k /\ new.materialised = FALSE /\ new.status = "processing"
    BY <1>2 DEF Charge, Body
  <2>4. charges' = [charges EXCEPT ![c] = new] /\ chargeClaim' = [chargeClaim EXCEPT ![k] = newClaim]
    BY <1>8
  <2> HIDE DEF c, new
  <2>5. /\ charges' \in [ChargeId -> Charge \cup {Unused}]
        /\ charges'[c] = new /\ \A x \in ChargeId : x # c => charges'[x] = charges[x]
        /\ KeysUnique' /\ RefundClaimsBacked' /\ OutcomesFinal' /\ RefundsBacked'
    BY <1>5, <1>8, <2>2, <2>3, <2>4, ChargeInserted
  <2>6. newClaim \in [charge : ChargeId \cup {NONE}, body : Body \cup {NoBody},
                      outcome : {"accepted", "failed_500", "none"}]
    BY <1>2, <2>2
  <2>7. /\ chargeClaim'[k].charge = c
        /\ \A x \in ChargeKey : x # k => chargeClaim'[x] = chargeClaim[x]
        /\ chargeClaim' \in [ChargeKey -> [charge : ChargeId \cup {NONE}, body : Body \cup {NoBody},
                                          outcome : {"accepted", "failed_500", "none"}]]
    BY <1>2, <2>4, <2>6 DEF ProviderTypeOK
  <2>8. ClaimsStay
    BY <1>5, <1>8, <2>7 DEF ClaimsStay
  <2>9. ClaimsBacked'
    <3> SUFFICES ASSUME NEW x \in ChargeKey, chargeClaim'[x].charge # NONE
                 PROVE  LET y == chargeClaim'[x].charge IN charges'[y] # Unused /\ charges'[y].key = x
      BY DEF ClaimsBacked
    <3>1. CASE x = k
      BY <2>3, <2>5, <2>7, <3>1, NotARow
    <3>2. CASE x # k
      <4> DEFINE y == chargeClaim[x].charge
      <4>1. chargeClaim'[x].charge = y /\ charges[y] # Unused /\ charges[y].key = x
        BY <2>7, <3>2 DEF ClaimsBacked
      <4>2. y \in ChargeId /\ y # c
        BY <2>2, <2>7, <3>2, <4>1 DEF ProviderTypeOK
      <4> QED BY <2>5, <4>1, <4>2
    <3> QED BY <3>1, <3>2
  <2>10. /\ http' \in [Request -> Call \cup {Idle}]
         /\ \A q \in Request : q # r => http'[q] = http[q]
         /\ http'[r] # Idle
         /\ \/ http'[r].at = "answered"
            \/ http'[r].at = "opened" /\ http'[r].id = c
         /\ http'[r].op = http[r].op /\ http'[r].key = http[r].key /\ http'[r].body = http[r].body
    <3>1. CASE fails
      BY <1>1, <1>4, <1>8, <3>1, Answering
    <3>2. CASE ~fails
      <4>1. Proceed(r, "opened", c)
        BY <1>8, <3>2 DEF c
      <4> QED BY <1>1, <2>2, <4>1, Moving
    <3> QED BY <3>1, <3>2
  <2>11. InOrder(r)'
    BY <1>1, <1>2, <2>2, <2>7, <2>10, AnsweredInOrder DEF InOrder, OpenCharge, ChargeRequest
  <2>12. RequestsInOrder'
    BY <2>8, <2>10, <2>11, OthersInOrder DEF RequestsInOrder
  <2>13. ProviderTypeOK'
    BY <1>5, <2>5, <2>7, <2>10 DEF ProviderTypeOK
  <2> QED BY <2>5, <2>9, <2>12, <2>13
<1>9. \/ UNCHANGED <<charges, chargeClaim>> /\ \E code \in Codes, id \in Nat : Answer(r, code, id)
      \/ /\ claim.charge # NONE /\ Proceed(r, "recovering", claim.charge)
         /\ UNCHANGED <<charges, chargeClaim>>
      \/ /\ claim.charge = NONE /\ ~KeyTaken(k) /\ FreshCharges # {}
         /\ \E fails \in BOOLEAN :
              /\ charges' = [charges EXCEPT ![NextId(FreshCharges)] =
                   [key |-> k, reference |-> body.of, amount |-> body.amount,
                    status |-> "processing", materialised |-> FALSE, refunded |-> 0]]
              /\ chargeClaim' = [chargeClaim EXCEPT ![k] =
                   [charge |-> NextId(FreshCharges), body |-> body,
                    outcome |-> IF fails THEN "failed_500" ELSE "accepted"]]
              /\ IF fails THEN Answer(r, 500, NONE) ELSE Proceed(r, "opened", NextId(FreshCharges))
  <2>1. claim.charge \in Nat
    BY <1>3, <1>4
  <2> QED BY <1>4, <2>1 DEF OpenCharge
<1> QED BY <1>6, <1>7, <1>8, <1>9

(* A replay of a claim without an outcome accepts it.                       *)
LEMMA RecoverChargeKept ==
  ASSUME ProviderInv, NEW r \in Request, RecoverCharge(r)
  PROVE  ProviderInv'
<1> USE DEF ProviderInv
<1> DEFINE k == http[r].key
           new == [chargeClaim[k] EXCEPT !.outcome = "accepted"]
<1>1. http[r] # Idle /\ http[r] \in Call /\ http[r].id \in Nat
  BY NotARow DEF RecoverCharge, ProviderTypeOK, Call
<1>2. k \in ChargeKey /\ http[r].op = "charge" /\ http[r].id = chargeClaim[k].charge
      /\ http[r].id # NONE
  BY <1>1 DEF RecoverCharge, RequestsInOrder, InOrder, ChargeRequest, RefundRequest
<1>3. new \in [charge : ChargeId \cup {NONE}, body : Body \cup {NoBody},
               outcome : {"accepted", "failed_500", "none"}]
      /\ new.charge = chargeClaim[k].charge
  BY <1>2 DEF ProviderTypeOK
<1>4. chargeClaim' = [chargeClaim EXCEPT ![k] = new]
  BY DEF RecoverCharge
<1>5. /\ chargeClaim' \in [ChargeKey -> [charge : ChargeId \cup {NONE}, body : Body \cup {NoBody},
                                        outcome : {"accepted", "failed_500", "none"}]]
      /\ \A x \in ChargeKey : chargeClaim'[x].charge = chargeClaim[x].charge
  BY <1>2, <1>3, <1>4 DEF ProviderTypeOK
<1>6. UNCHANGED <<charges, refunds, refundClaim, wire>> /\ Proceed(r, "opened", http[r].id)
  BY DEF RecoverCharge
<1>7. ClaimsStay
  BY <1>5, <1>6 DEF ClaimsStay
<1>8. /\ http' \in [Request -> Call \cup {Idle}]
      /\ \A q \in Request : q # r => http'[q] = http[q]
      /\ http'[r].at = "opened" /\ http'[r].id = http[r].id
      /\ http'[r].op = http[r].op /\ http'[r].key = http[r].key /\ http'[r].body = http[r].body
  BY <1>1, <1>6, Moving
<1>9. InOrder(r)'
  <2>1. ChargeRequest(http[r])
    BY <1>1, <1>2 DEF RequestsInOrder, InOrder, RefundRequest
  <2> QED BY <1>2, <1>5, <1>8, <2>1 DEF InOrder, ChargeRequest
<1>10. RequestsInOrder'
  BY <1>7, <1>8, <1>9, OthersInOrder DEF RequestsInOrder
<1>11. ProviderTypeOK'
  BY <1>5, <1>6, <1>8 DEF ProviderTypeOK
<1>12. ClaimsBacked'
  BY <1>5, <1>6 DEF ClaimsBacked
<1> QED BY <1>6, <1>10, <1>11, <1>12 DEF KeysUnique, RefundClaimsBacked, OutcomesFinal,
                                        RefundsBacked, Minted

(* Scheduling webhooks leaves the rest of the wire alone. *)
LEMMA Dispatching ==
  ASSUME ProviderInv, NEW c \in ChargeId, NEW e \in Events, Dispatch(c, e)
  PROVE  /\ wire' \in [ChargeId -> [Events -> Nat]]
         /\ \A x \in ChargeId, f \in Events : wire'[x][f] # wire[x][f] => x = c /\ f = e
<1>1. wire \in [ChargeId -> [Events -> Nat]]
  BY DEF ProviderInv, ProviderTypeOK
<1>2. PICK n \in 1..MAX_DELIVERIES : wire' = [wire EXCEPT ![c][e] = @ + n]
  BY DEF Dispatch
<1>3. n \in Nat
  BY <1>2, LedgerAssumption
<1> DEFINE new == [wire[c] EXCEPT ![e] = @ + n]
<1>4. new \in [Events -> Nat] /\ \A f \in Events : f # e => new[f] = wire[c][f]
  BY <1>1, <1>3
<1>5. wire' = [wire EXCEPT ![c] = new]
  BY <1>2
<1> QED BY <1>1, <1>4, <1>5

(* The charge gets its outcome, once, and announces it.                     *)
LEMMA MaterialiseChargeKept ==
  ASSUME ProviderInv, NEW r \in Request, MaterialiseCharge(r)
  PROVE  ProviderInv'
<1> USE DEF ProviderInv
<1> DEFINE c == http[r].id
           outcome == IF charges[c].amount = DECLINE_AMOUNT THEN "failed" ELSE "succeeded"
           event == IF outcome = "failed" THEN "charge.failed" ELSE "charge.succeeded"
           new == [charges[c] EXCEPT !.materialised = TRUE, !.status = outcome]
<1>1. http[r] # Idle /\ http[r] \in Call
  BY NotARow DEF MaterialiseCharge, ProviderTypeOK
<1>2. http[r].key \in ChargeKey /\ c = chargeClaim[http[r].key].charge /\ c # NONE
  BY <1>1 DEF MaterialiseCharge, RequestsInOrder, InOrder, ChargeRequest, RefundRequest
<1>3. c \in ChargeId /\ c \in Nat /\ charges[c] # Unused /\ charges[c] \in Charge
  BY <1>2, LedgerAssumption DEF ClaimsBacked, ProviderTypeOK
<1>4. 202 \in Codes
  BY DEF Codes
<1>5. Answer(r, 202, c) /\ UNCHANGED <<refunds, chargeClaim, refundClaim>>
  BY DEF MaterialiseCharge
<1>6. CASE charges[c].materialised
  <2>1. UNCHANGED <<charges, wire>>
    BY <1>6 DEF MaterialiseCharge
  <2> QED BY <1>1, <1>3, <1>4, <1>5, <2>1, OnlyAnswers
<1>7. CASE ~charges[c].materialised
  <2>1. charges' = [charges EXCEPT ![c] = new] /\ Dispatch(c, event)
    BY <1>7 DEF MaterialiseCharge
  <2>2. /\ new \in Charge /\ new.key = charges[c].key /\ new.materialised = TRUE
        /\ new.status = outcome /\ outcome # "processing"
    BY <1>3 DEF Charge
  <2>3. new # Unused
    BY <2>2, NotARow
  <2> HIDE DEF new
  <2>4. /\ charges' \in [ChargeId -> Charge \cup {Unused}] /\ charges'[c] = new
        /\ \A x \in ChargeId : x # c => charges'[x] = charges[x]
        /\ Minted(charges') = Minted(charges) /\ Minted(charges) \subseteq ChargeId
    BY <1>3, <2>1, <2>2, <2>3 DEF ProviderTypeOK, Minted
  <2>5. wire' \in [ChargeId -> [Events -> Nat]]
    BY <1>3, <2>1, Dispatching DEF Events
  <2>6. ProviderTypeOK'
    BY <1>1, <1>3, <1>4, <1>5, <2>4, <2>5, Answering DEF ProviderTypeOK
  <2>7. RequestsInOrder'
    <3>1. ClaimsStay
      BY <1>5 DEF ClaimsStay
    <3> QED BY <1>1, <1>3, <1>4, <1>5, <3>1, Answering, OthersInOrder, AnsweredInOrder
            DEF RequestsInOrder
  <2>8. \A x \in ChargeId : charges'[x].key = charges[x].key /\ (charges'[x] = Unused <=> charges[x] = Unused)
    BY <1>3, <2>2, <2>3, <2>4
  <2>9. KeysUnique' /\ ClaimsBacked'
    <3>1. KeysUnique'
      BY <2>4, <2>8 DEF KeysUnique
    <3>2. \A k \in ChargeKey : chargeClaim[k].charge # NONE => chargeClaim[k].charge \in ChargeId
      BY DEF ProviderTypeOK
    <3>3. ClaimsBacked'
      BY <1>5, <2>8, <3>2 DEF ClaimsBacked
    <3> QED BY <3>1, <3>3
  <2>10. OutcomesFinal'
    BY <2>2, <2>4 DEF OutcomesFinal
  <2>11. RefundsBacked'
    <3>1. charges[c].status = "processing"
      <4>1. c \in Minted(charges)
        BY <1>3 DEF Minted, ProviderTypeOK
      <4> QED BY <1>7, <4>1 DEF OutcomesFinal
    <3>2. \A d \in Minted(refunds) : refunds[d].charge \in ChargeId
      BY NotARow DEF Minted, ProviderTypeOK, Refund
    <3> QED BY <1>5, <2>4, <3>1, <3>2 DEF RefundsBacked, Minted
  <2>12. RefundClaimsBacked'
    BY <1>5 DEF RefundClaimsBacked
  <2> QED BY <2>6, <2>7, <2>9, <2>10, <2>11, <2>12
<1> QED BY <1>6, <1>7

(* openRefund: of a posted request, what is known of it. *)
LEMMA RefundPosted ==
  ASSUME ProviderInv, NEW r \in Request, http[r].at = "posted", http[r].op = "refund"
  PROVE  /\ http[r] # Idle /\ http[r] \in Call
         /\ http[r].key \in RefundKey /\ http[r].body.of \in ChargeId /\ http[r].body \in Body
         /\ http[r].body.amount \in Amounts
         /\ refundClaim[http[r].key].refund \in Nat
<1> USE DEF ProviderInv
<1>1. http[r] # Idle /\ http[r] \in Call
  BY NotARow DEF ProviderTypeOK
<1>2. http[r].key \in RefundKey /\ http[r].body.of \in ChargeId /\ http[r].body \in Body
  BY <1>1 DEF RequestsInOrder, InOrder, ChargeRequest, RefundRequest, Call
<1>3. refundClaim[http[r].key].refund \in RefundId \cup {NONE}
  BY <1>2 DEF ProviderTypeOK
<1>4. refundClaim[http[r].key].refund \in Nat
  <2>1. RefundId \subseteq Nat /\ NONE \in Nat
    BY LedgerAssumption DEF NONE
  <2> QED BY <1>3, <2>1
<1>5. http[r].body.amount \in Amounts
  BY <1>2 DEF Body
<1> QED BY <1>1, <1>2, <1>4, <1>5

(* A refund is answered from its claim. *)
LEMMA ReplayRefundKept ==
  ASSUME ProviderInv, NEW r \in Request, http[r].at = "posted", http[r].op = "refund",
         ReplayRefund(r), UNCHANGED <<chargeClaim, wire>>
  PROVE  ProviderInv'
<1>1. {202, 409, 500} \subseteq Codes /\ NONE \in Nat
  BY DEF Codes, NONE
<1>2. \E code \in Codes, id \in Nat : Answer(r, code, id)
  BY <1>1, RefundPosted DEF ReplayRefund
<1> QED BY <1>2, RefundPosted, OnlyAnswers DEF ReplayRefund

(* Refusing a refund voids its key, which no refund has. *)
LEMMA RefuseKept ==
  ASSUME ProviderInv, NEW r \in Request, http[r].at = "posted", http[r].op = "refund",
         refundClaim[http[r].key].row = "none", NEW code \in Codes, Refuse(r, code),
         UNCHANGED <<chargeClaim, wire>>
  PROVE  ProviderInv'
<1> USE DEF ProviderInv
<1> DEFINE k == http[r].key
           void == [refund |-> NONE, body |-> http[r].body, row |-> "void"]
<1>1. http[r] # Idle /\ k \in RefundKey /\ http[r].body \in Body /\ NONE \in Nat
  BY RefundPosted DEF NONE
<1>2. Answer(r, code, NONE) /\ UNCHANGED <<charges, refunds>>
      /\ refundClaim' = [refundClaim EXCEPT ![k] = void]
  BY DEF Refuse
<1>3. void \in [refund : RefundId \cup {NONE}, body : Body \cup {NoBody},
                row : {"none", "void", "refund"}]
  BY <1>1
<1>4. /\ refundClaim' \in [RefundKey -> [refund : RefundId \cup {NONE}, body : Body \cup {NoBody},
                                        row : {"none", "void", "refund"}]]
      /\ refundClaim'[k] = void /\ \A x \in RefundKey : x # k => refundClaim'[x] = refundClaim[x]
  BY <1>1, <1>2, <1>3 DEF ProviderTypeOK
<1>5. refundClaim[k].refund = NONE
  BY <1>1 DEF RefundClaimsBacked
<1>6. ClaimsStay
  BY <1>4, <1>5 DEF ClaimsStay
<1>7. RefundClaimsBacked'
  <2>1. void.row = "void" /\ void.refund = NONE
    OBVIOUS
  <2> HIDE DEF void
  <2> SUFFICES ASSUME NEW x \in RefundKey
               PROVE  LET claim == refundClaim'[x] IN
                        /\ claim.row = "refund" <=> claim.refund # NONE
                        /\ claim.row = "refund" =>
                             /\ refunds'[claim.refund] # Unused
                             /\ refunds'[claim.refund].charge = claim.body.of
                             /\ refunds'[claim.refund].amount = claim.body.amount
    BY DEF RefundClaimsBacked
  <2>2. CASE x = k
    BY <1>4, <2>1, <2>2
  <2>3. CASE x # k
    <3>1. refundClaim'[x] = refundClaim[x] /\ refunds' = refunds
      BY <1>2, <1>4, <2>3
    <3> QED BY <3>1 DEF RefundClaimsBacked
  <2> QED BY <2>2, <2>3
<1>8. RequestsInOrder'
  BY <1>1, <1>2, <1>6, Answering, OthersInOrder, AnsweredInOrder DEF RequestsInOrder
<1>9. ProviderTypeOK'
  BY <1>1, <1>2, <1>4, Answering DEF ProviderTypeOK
<1> QED BY <1>2, <1>7, <1>8, <1>9 DEF KeysUnique, ClaimsBacked, OutcomesFinal, RefundsBacked, Minted

(* What a verdict says of the charge. *)
LEMMA Verdicts ==
  ASSUME NEW c, NEW amount
  PROVE  /\ RefundVerdict(c, amount) \in {404, 409, 422, 202}
         /\ RefundVerdict(c, amount) = 202 => Refundable(c) /\ ~Exceeds(c, amount)
  BY DEF RefundVerdict, Refundable

(* Adding to what was refunded of a charge changes nothing else of it. *)
LEMMA ChargeRefunded ==
  ASSUME ProviderInv, NEW c \in ChargeId, charges[c] # Unused, NEW amount \in Nat,
         charges' = [charges EXCEPT ![c].refunded = @ + amount]
  PROVE  /\ charges' \in [ChargeId -> Charge \cup {Unused}]
         /\ charges'[c] \in Charge /\ charges'[c].refunded = charges[c].refunded + amount
         /\ charges'[c].key = charges[c].key /\ charges'[c].status = charges[c].status
         /\ charges'[c].amount = charges[c].amount
         /\ charges'[c].materialised = charges[c].materialised
         /\ \A x \in ChargeId : x # c => charges'[x] = charges[x]
<1> USE DEF ProviderInv
<1>1. charges[c] \in Charge /\ charges \in [ChargeId -> Charge \cup {Unused}]
  BY DEF ProviderTypeOK
<1>2. ASSUME NEW old \in Charge
      PROVE  LET new == [old EXCEPT !.refunded = @ + amount] IN
             /\ new \in Charge /\ new.refunded = old.refunded + amount
             /\ new.key = old.key /\ new.status = old.status /\ new.amount = old.amount
             /\ new.materialised = old.materialised
  BY DEF Charge
<1> DEFINE new == [charges[c] EXCEPT !.refunded = @ + amount]
<1>3. /\ new \in Charge /\ new.refunded = charges[c].refunded + amount
      /\ new.key = charges[c].key /\ new.status = charges[c].status
      /\ new.amount = charges[c].amount /\ new.materialised = charges[c].materialised
  BY <1>1, <1>2
<1>4. charges' = [charges EXCEPT ![c] = new]
  OBVIOUS
<1> HIDE DEF new
<1> QED BY <1>1, <1>3, <1>4

(* What TakeRefund does to the tables. *)
LEMMA RefundTaken ==
  ASSUME ProviderInv, NEW r \in Request, http[r].at = "posted", http[r].op = "refund",
         refundClaim[http[r].key].row = "none", Refundable(http[r].body.of), TakeRefund(r)
  PROVE  LET k == http[r].key  c == http[r].body.of  d == NextId(FreshRefunds) IN
         /\ k \in RefundKey /\ c \in ChargeId /\ d \in RefundId /\ d \in Nat \ {NONE}
         /\ charges[c] # Unused /\ charges[c].status = "succeeded" /\ refunds[d] = Unused
         /\ http[r].body.amount \in Amounts
         /\ refunds' \in [RefundId -> Refund \cup {Unused}]
         /\ refunds'[d] # Unused /\ refunds'[d].charge = c
         /\ refunds'[d].amount = http[r].body.amount
         /\ \A x \in RefundId : x # d => refunds'[x] = refunds[x]
         /\ refundClaim[k].refund = NONE
         /\ refundClaim' \in [RefundKey -> [refund : RefundId \cup {NONE}, body : Body \cup {NoBody},
                                           row : {"none", "void", "refund"}]]
         /\ refundClaim'[k].refund = d /\ refundClaim'[k].body = http[r].body
         /\ refundClaim'[k].row = "refund"
         /\ \A x \in RefundKey : x # k => refundClaim'[x] = refundClaim[x]
         /\ charges' = [charges EXCEPT ![c].refunded = @ + http[r].body.amount]
<1> USE DEF ProviderInv
<1> DEFINE k == http[r].key
           c == http[r].body.of
           d == NextId(FreshRefunds)
           row == [charge |-> c, amount |-> http[r].body.amount, materialised |-> FALSE]
           claim == [refund |-> d, body |-> http[r].body, row |-> "refund"]
<1>1. k \in RefundKey /\ c \in ChargeId /\ http[r].body \in Body /\ http[r].body.amount \in Amounts
  BY RefundPosted
<1>2. d \in FreshRefunds
  BY Drawn DEF TakeRefund
<1>3. d \in RefundId /\ refunds[d] = Unused
  BY <1>2 DEF FreshRefunds, Minted, ProviderTypeOK
<1>4. d \in Nat \ {NONE}
  BY <1>3, LedgerAssumption DEF NONE
<1>5. charges[c] # Unused /\ charges[c].status = "succeeded"
  BY NotARow DEF Refundable
<1>6. /\ refunds' = [refunds EXCEPT ![d] = row] /\ refundClaim' = [refundClaim EXCEPT ![k] = claim]
      /\ charges' = [charges EXCEPT ![c].refunded = @ + http[r].body.amount]
  BY DEF TakeRefund
<1> HIDE DEF d
<1>7. row \in Refund /\ row.charge = c /\ row.amount = http[r].body.amount
  BY <1>1 DEF Refund
<1>8. claim \in [refund : RefundId \cup {NONE}, body : Body \cup {NoBody},
                 row : {"none", "void", "refund"}]
      /\ claim.refund = d /\ claim.body = http[r].body /\ claim.row = "refund"
  BY <1>1, <1>3
<1> HIDE DEF row, claim
<1>9. /\ refunds' \in [RefundId -> Refund \cup {Unused}] /\ refunds'[d] = row
      /\ \A x \in RefundId : x # d => refunds'[x] = refunds[x]
  BY <1>3, <1>6, <1>7 DEF ProviderTypeOK
<1>10. /\ refundClaim' \in [RefundKey -> [refund : RefundId \cup {NONE}, body : Body \cup {NoBody},
                                         row : {"none", "void", "refund"}]]
       /\ refundClaim'[k] = claim
       /\ \A x \in RefundKey : x # k => refundClaim'[x] = refundClaim[x]
  BY <1>1, <1>6, <1>8 DEF ProviderTypeOK
<1>11. refundClaim[k].refund = NONE
  BY <1>1 DEF RefundClaimsBacked
<1>12. row # Unused
  BY <1>7, NotARow
<1> QED BY <1>1, <1>3, <1>4, <1>5, <1>6, <1>7, <1>8, <1>9, <1>10, <1>11, <1>12 DEF d

(* The claim, the refund row and refunded_minor are written together. *)
LEMMA TakeRefundKept ==
  ASSUME ProviderInv, NEW r \in Request, http[r].at = "posted", http[r].op = "refund",
         refundClaim[http[r].key].row = "none", Refundable(http[r].body.of), TakeRefund(r),
         UNCHANGED <<chargeClaim, wire>>
  PROVE  ProviderInv'
<1> USE DEF ProviderInv
<1> DEFINE k == http[r].key
           c == http[r].body.of
           d == NextId(FreshRefunds)
           amount == http[r].body.amount
<1>1. /\ k \in RefundKey /\ c \in ChargeId /\ d \in RefundId /\ d \in Nat \ {NONE}
      /\ charges[c] # Unused /\ charges[c].status = "succeeded" /\ refunds[d] = Unused
      /\ amount \in Amounts
      /\ refunds' \in [RefundId -> Refund \cup {Unused}]
      /\ refunds'[d] # Unused /\ refunds'[d].charge = c /\ refunds'[d].amount = amount
      /\ \A x \in RefundId : x # d => refunds'[x] = refunds[x]
      /\ charges' = [charges EXCEPT ![c].refunded = @ + amount]
  BY RefundTaken
<1>2. /\ refundClaim' \in [RefundKey -> [refund : RefundId \cup {NONE}, body : Body \cup {NoBody},
                                        row : {"none", "void", "refund"}]]
      /\ refundClaim[k].refund = NONE
      /\ refundClaim'[k].refund = d /\ refundClaim'[k].body = http[r].body
      /\ refundClaim'[k].row = "refund"
      /\ \A x \in RefundKey : x # k => refundClaim'[x] = refundClaim[x]
  BY RefundTaken
<1>3. Proceed(r, "opened", d) /\ UNCHANGED <<chargeClaim, wire>>
  BY DEF TakeRefund
<1> HIDE DEF d, amount
<1>4. amount \in Nat
  BY <1>1, LedgerAssumption
<1>5. /\ charges' \in [ChargeId -> Charge \cup {Unused}] /\ charges'[c] # Unused
      /\ \A x \in ChargeId : /\ charges'[x].key = charges[x].key
                             /\ charges'[x].status = charges[x].status
                             /\ charges'[x].materialised = charges[x].materialised
                             /\ charges'[x] = Unused <=> charges[x] = Unused
  BY <1>1, <1>4, ChargeRefunded, NotARow
<1>6. Minted(charges') = Minted(charges) /\ Minted(charges) \subseteq ChargeId
  BY <1>5 DEF Minted, ProviderTypeOK
<1>7. Minted(refunds') = Minted(refunds) \cup {d} /\ Minted(refunds) \subseteq RefundId \ {d}
  BY <1>1 DEF Minted, ProviderTypeOK
<1>8. ClaimsStay
  BY <1>2, <1>3 DEF ClaimsStay
<1>9. http[r] # Idle /\ RefundRequest(http[r])
  BY RefundPosted DEF RefundRequest
<1>10. /\ http' \in [Request -> Call \cup {Idle}]
       /\ \A q \in Request : q # r => http'[q] = http[q]
       /\ http'[r].at = "opened" /\ http'[r].id = d
       /\ http'[r].op = http[r].op /\ http'[r].key = http[r].key /\ http'[r].body = http[r].body
  BY <1>1, <1>3, <1>9, Moving
<1>11. RequestsInOrder'
  <2>1. InOrder(r)'
    BY <1>1, <1>2, <1>9, <1>10 DEF InOrder, RefundRequest
  <2> QED BY <1>8, <1>10, <2>1, OthersInOrder DEF RequestsInOrder
<1>12. ProviderTypeOK'
  BY <1>1, <1>2, <1>3, <1>5, <1>10 DEF ProviderTypeOK
<1>13. KeysUnique' /\ OutcomesFinal'
  BY <1>5, <1>6 DEF KeysUnique, OutcomesFinal
<1>14. ClaimsBacked'
  <2>1. \A x \in ChargeKey : chargeClaim[x].charge # NONE => chargeClaim[x].charge \in ChargeId
    BY DEF ProviderTypeOK
  <2> QED BY <1>3, <1>5, <2>1 DEF ClaimsBacked
<1>15. RefundsBacked'
  <2>1. \A x \in Minted(refunds) : refunds[x].charge \in ChargeId
    BY NotARow DEF Minted, ProviderTypeOK, Refund
  <2>2. \A x \in Minted(refunds) : charges'[refunds[x].charge].status = "succeeded"
    BY <1>5, <2>1 DEF RefundsBacked
  <2>3. \A x \in Minted(refunds) : refunds'[x].charge = refunds[x].charge
    BY <1>1, <1>7
  <2>4. charges'[refunds'[d].charge].status = "succeeded"
    BY <1>1, <1>5
  <2> QED BY <1>7, <2>2, <2>3, <2>4 DEF RefundsBacked
<1>16. RefundClaimsBacked'
  <2> SUFFICES ASSUME NEW x \in RefundKey
               PROVE  LET claim == refundClaim'[x] IN
                        /\ claim.row = "refund" <=> claim.refund # NONE
                        /\ claim.row = "refund" =>
                             /\ refunds'[claim.refund] # Unused
                             /\ refunds'[claim.refund].charge = claim.body.of
                             /\ refunds'[claim.refund].amount = claim.body.amount
    BY DEF RefundClaimsBacked
  <2>1. CASE x = k
    BY <1>1, <1>2, <2>1 DEF amount
  <2>2. CASE x # k
    <3>1. refundClaim'[x] = refundClaim[x]
      BY <1>2, <2>2
    <3>2. ASSUME refundClaim[x].row = "refund"
          PROVE  refunds'[refundClaim[x].refund] = refunds[refundClaim[x].refund]
      <4>1. refundClaim[x].refund \in RefundId /\ refunds[refundClaim[x].refund] # Unused
        BY <3>2 DEF RefundClaimsBacked, ProviderTypeOK
      <4> QED BY <1>1, <4>1
    <3> QED BY <3>1, <3>2 DEF RefundClaimsBacked
  <2> QED BY <2>1, <2>2
<1> QED BY <1>11, <1>12, <1>13, <1>14, <1>15, <1>16

(* The first transaction of a refund: replay, refusal or a new refund.      *)
LEMMA OpenRefundKept ==
  ASSUME ProviderInv, NEW r \in Request, OpenRefund(r)
  PROVE  ProviderInv'
<1> DEFINE verdict == RefundVerdict(http[r].body.of, http[r].body.amount)
<1>1. /\ http[r].at = "posted" /\ http[r].op = "refund" /\ UNCHANGED <<chargeClaim, wire>>
      /\ \/ ReplayRefund(r)
         \/ refundClaim[http[r].key].row = "none" /\ verdict = 202 /\ TakeRefund(r)
         \/ refundClaim[http[r].key].row = "none" /\ verdict # 202 /\ Refuse(r, verdict)
  BY DEF OpenRefund
<1>2. verdict \in {404, 409, 422, 202} /\ (verdict = 202 => Refundable(http[r].body.of))
  BY Verdicts
<1>3. verdict \in Codes
  BY <1>2 DEF Codes
<1> QED BY <1>1, <1>2, <1>3, ReplayRefundKept, TakeRefundKept, RefuseKept

(* The refund gets its outcome, once, and announces it.                     *)
LEMMA MaterialiseRefundKept ==
  ASSUME ProviderInv, NEW r \in Request, MaterialiseRefund(r)
  PROVE  ProviderInv'
<1> USE DEF ProviderInv
<1> DEFINE d == http[r].id
           new == [refunds[d] EXCEPT !.materialised = TRUE]
<1>1. http[r] # Idle /\ http[r] \in Call
  BY NotARow DEF MaterialiseRefund, ProviderTypeOK
<1>2. http[r].key \in RefundKey /\ d = refundClaim[http[r].key].refund /\ d # NONE
  BY <1>1 DEF MaterialiseRefund, RequestsInOrder, InOrder, ChargeRequest, RefundRequest
<1>3. d \in RefundId /\ refunds[d] # Unused /\ refunds[d] \in Refund
  BY <1>2 DEF RefundClaimsBacked, ProviderTypeOK
<1>4. 202 \in Codes /\ d \in Nat
  BY <1>3, LedgerAssumption DEF Codes
<1>5. Answer(r, 202, d) /\ UNCHANGED <<charges, chargeClaim, refundClaim>>
  BY DEF MaterialiseRefund
<1>6. CASE refunds[d].materialised
  <2>1. UNCHANGED <<refunds, wire>>
    BY <1>6 DEF MaterialiseRefund
  <2> QED BY <1>1, <1>4, <1>5, <2>1, OnlyAnswers
<1>7. CASE ~refunds[d].materialised
  <2>1. refunds' = [refunds EXCEPT ![d] = new] /\ Dispatch(refunds[d].charge, "refund.succeeded")
    BY <1>7 DEF MaterialiseRefund
  <2>2. /\ new \in Refund /\ new.charge = refunds[d].charge /\ new.amount = refunds[d].amount
    BY <1>3 DEF Refund
  <2>3. new # Unused
    BY <2>2, NotARow
  <2> HIDE DEF new
  <2>4. /\ refunds' \in [RefundId -> Refund \cup {Unused}] /\ refunds'[d] = new
        /\ \A x \in RefundId : x # d => refunds'[x] = refunds[x]
    BY <1>3, <2>1, <2>2 DEF ProviderTypeOK
  <2>5. Minted(refunds') = Minted(refunds) /\ Minted(refunds) \subseteq RefundId
    BY <1>3, <2>3, <2>4 DEF ProviderTypeOK, Minted
  <2>6. refunds[d].charge \in ChargeId
    BY <1>3 DEF Refund
  <2>7. wire' \in [ChargeId -> [Events -> Nat]]
    BY <2>1, <2>6, Dispatching DEF Events
  <2>8. ProviderTypeOK'
    BY <1>1, <1>4, <1>5, <2>4, <2>7, Answering DEF ProviderTypeOK
  <2>9. RequestsInOrder'
    <3>1. ClaimsStay
      BY <1>5 DEF ClaimsStay
    <3> QED BY <1>1, <1>4, <1>5, <3>1, Answering, OthersInOrder, AnsweredInOrder
            DEF RequestsInOrder
  <2>10. \A x \in RefundId : /\ refunds'[x].charge = refunds[x].charge
                             /\ refunds'[x].amount = refunds[x].amount
                             /\ refunds'[x] = Unused <=> refunds[x] = Unused
    BY <1>3, <2>2, <2>3, <2>4
  <2>11. KeysUnique' /\ ClaimsBacked' /\ OutcomesFinal'
    BY <1>5 DEF KeysUnique, ClaimsBacked, OutcomesFinal, Minted
  <2>12. RefundsBacked'
    BY <1>5, <2>5, <2>10 DEF RefundsBacked
  <2>13. RefundClaimsBacked'
    <3>1. \A x \in RefundKey : refundClaim[x].refund # NONE => refundClaim[x].refund \in RefundId
      BY DEF ProviderTypeOK
    <3> QED BY <1>5, <2>10, <3>1 DEF RefundClaimsBacked
  <2> QED BY <2>8, <2>9, <2>11, <2>12, <2>13
<1> QED BY <1>6, <1>7

(* A step of any handler keeps the provider's invariant. *)
LEMMA HandleKept ==
  ASSUME ProviderInv, NEW r \in Request, Handle(r)
  PROVE  ProviderInv'
  BY OpenChargeKept, RecoverChargeKept, MaterialiseChargeKept, OpenRefundKept,
     MaterialiseRefundKept DEF Handle

-----------------------------------------------------------------------------
(* A request that gets no answer. *)
LEMMA DropKept ==
  ASSUME ProviderInv, NEW r \in Request, Drop(r)
  PROVE  ProviderInv'
<1>1. http[r] # Idle
  BY NotARow DEF Drop
<1>2. 503 \in Codes /\ NONE \in Nat
  BY DEF Codes, NONE
<1> QED BY <1>1, <1>2, OnlyAnswers DEF Drop

(* A webhook that is sent is no longer on the wire. *)
LEMMA SendKept ==
  ASSUME ProviderInv, NEW c \in ChargeId, NEW e \in Events, Send(c, e)
  PROVE  /\ ProviderInv'
         /\ \A x \in ChargeId, f \in Events : wire'[x][f] <= wire[x][f]
<1> USE DEF ProviderInv
<1>1. wire \in [ChargeId -> [Events -> Nat]] /\ wire[c][e] > 0
  BY DEF ProviderTypeOK, Send
<1> DEFINE new == [wire[c] EXCEPT ![e] = @ - 1]
<1>2. new \in [Events -> Nat] /\ \A f \in Events : new[f] <= wire[c][f]
  BY <1>1
<1>3. wire' = [wire EXCEPT ![c] = new] /\ UNCHANGED <<http, charges, refunds, chargeClaim, refundClaim>>
  BY DEF Send
<1>4. wire' \in [ChargeId -> [Events -> Nat]]
  BY <1>1, <1>2, <1>3
<1>5. ASSUME NEW x \in ChargeId, NEW f \in Events PROVE wire'[x][f] <= wire[x][f]
  BY <1>1, <1>2, <1>3
<1> QED BY <1>3, <1>4, <1>5 DEF ProviderTypeOK, RequestsInOrder, InOrder, KeysUnique, ClaimsBacked,
                                RefundClaimsBacked, OutcomesFinal, RefundsBacked, Minted,
                                ChargeRequest, RefundRequest

(* No webhooks is a state of the wire. *)
LEMMA WireEmptied == NoWebhooks \in [ChargeId -> [Events -> Nat]]
  BY DEF NoWebhooks

(* What a restart makes of the requests. *)
LEMMA AllHungUp ==
  ASSUME ProviderInv, http' = [r \in Request |-> HungUp(r)]
  PROVE  http' \in [Request -> Call \cup {Idle}] /\ RequestsInOrder'
<1> USE DEF ProviderInv
<1> SUFFICES ASSUME NEW r \in Request PROVE HungUp(r) \in Call \cup {Idle} /\ InOrder(r)'
  BY DEF RequestsInOrder
<1>1. http'[r] = HungUp(r) /\ http[r] \in Call \cup {Idle} /\ InOrder(r)
  BY DEF ProviderTypeOK, RequestsInOrder
<1>2. CASE http[r].at \in {"posted", "recovering", "opened"}
  <2>1. http[r] \in Call /\ http[r] # Idle
    BY <1>1, <1>2, NotARow
  <2>2. 503 \in Codes /\ NONE \in Nat
    BY DEF Codes, NONE
  <2>3. HungUp(r) = [http[r] EXCEPT !.at = "answered", !.code = 503, !.id = NONE]
    BY <1>2 DEF HungUp
  <2>4. HungUp(r) \in Call
    <3>1. \A code \in Codes, id \in Nat :
            [http[r] EXCEPT !.at = "answered", !.code = code, !.id = id] \in Call
      BY <2>1, CallUpdates
    <3>2. [http[r] EXCEPT !.at = "answered", !.code = 503, !.id = NONE] \in Call
      BY <2>2, <3>1, Zenon
    <3> QED BY <2>3, <3>2
  <2>5. /\ HungUp(r).at = "answered" /\ HungUp(r).op = http[r].op /\ HungUp(r).key = http[r].key
        /\ HungUp(r).body = http[r].body
    BY <2>1, <2>3 DEF Call
  <2> QED BY <1>1, <2>1, <2>4, <2>5, AnsweredInOrder
<1>3. CASE http[r].at \notin {"posted", "recovering", "opened"}
  <2>1. HungUp(r) = http[r]
    BY <1>3 DEF HungUp
  <2> QED BY <1>1, <1>3, <2>1 DEF InOrder, ChargeRequest, RefundRequest
<1> QED BY <1>2, <1>3

(* A restart of the provider over a ledger that is durable. *)
LEMMA RestartKept ==
  ASSUME ProviderInv, Restart
  PROVE  ProviderInv'
<1>1. /\ http' = [r \in Request |-> HungUp(r)] /\ wire' = NoWebhooks
      /\ UNCHANGED <<charges, refunds, chargeClaim, refundClaim>>
  BY DEF Restart
<1>2. ProviderTypeOK'
  BY <1>1, AllHungUp, WireEmptied DEF ProviderInv, ProviderTypeOK
<1> QED BY <1>1, <1>2, AllHungUp DEF ProviderInv, KeysUnique, ClaimsBacked, RefundClaimsBacked,
                                     OutcomesFinal, RefundsBacked, Minted

(* A caller posts a request, or takes its answer away. *)
LEMMA SlotKept ==
  ASSUME ProviderInv, NEW r \in Request, NEW q \in Call \cup {Idle},
         q = Idle \/ (q.at = "posted" /\ (ChargeRequest(q) \/ RefundRequest(q))),
         http' = [http EXCEPT ![r] = q],
         UNCHANGED <<charges, refunds, chargeClaim, refundClaim, wire>>
  PROVE  ProviderInv'
<1> USE DEF ProviderInv
<1>1. /\ http' \in [Request -> Call \cup {Idle}] /\ http'[r] = q
      /\ \A x \in Request : x # r => http'[x] = http[x]
  BY DEF ProviderTypeOK
<1>2. ClaimsStay
  BY DEF ClaimsStay
<1>3. InOrder(r)'
  BY <1>1 DEF InOrder
<1>4. RequestsInOrder'
  BY <1>1, <1>2, <1>3, OthersInOrder DEF RequestsInOrder
<1>5. ProviderTypeOK'
  BY <1>1 DEF ProviderTypeOK
<1> QED BY <1>4, <1>5 DEF KeysUnique, ClaimsBacked, RefundClaimsBacked, OutcomesFinal,
                          RefundsBacked, Minted

(* The requests that the routes accept. *)
LEMMA PostedCalls ==
  ASSUME NEW amount \in Amounts
  PROVE  /\ \A k \in ChargeKey, ref \in Reference :
              LET q == Posted("charge", k, [of |-> ref, amount |-> amount]) IN
                q \in Call /\ q.at = "posted" /\ ChargeRequest(q)
         /\ \A k \in RefundKey, c \in ChargeId :
              LET q == Posted("refund", k, [of |-> c, amount |-> amount]) IN
                q \in Call /\ q.at = "posted" /\ RefundRequest(q)
<1>1. 0 \in Codes /\ NONE \in Nat
  BY DEF Codes, NONE
<1>2. \A x \in Reference \cup ChargeId : [of |-> x, amount |-> amount] \in Body
  BY DEF Body
<1>3. ASSUME NEW body \in Body
      PROVE  /\ \A k \in ChargeKey : LET q == Posted("charge", k, body) IN
                  /\ q \in Call /\ q.at = "posted" /\ q.op = "charge" /\ q.key = k /\ q.body = body
             /\ \A k \in RefundKey : LET q == Posted("refund", k, body) IN
                  /\ q \in Call /\ q.at = "posted" /\ q.op = "refund" /\ q.key = k /\ q.body = body
  BY <1>1 DEF Posted, Call
<1>4. \A x : [of |-> x, amount |-> amount].of = x
  OBVIOUS
<1> QED BY <1>2, <1>3, <1>4 DEF ChargeRequest, RefundRequest

(* The empty ledger. *)
LEMMA LedgerEmpty ==
  ASSUME http \in [Request -> Call \cup {Idle}], \A r \in Request : http[r].at \notin {"recovering", "opened"},
         \A r \in Request : http[r] # Idle =>
           http[r].at # "idle" /\ (ChargeRequest(http[r]) \/ RefundRequest(http[r])),
         charges = [c \in ChargeId |-> Unused], refunds = [d \in RefundId |-> Unused],
         chargeClaim = [k \in ChargeKey |-> Unclaimed], refundClaim = [k \in RefundKey |-> NoRefund],
         wire = NoWebhooks
  PROVE  ProviderInv
<1>1. Minted(charges) = {} /\ Minted(refunds) = {}
  BY DEF Minted
<1>2. Unclaimed \in [charge : ChargeId \cup {NONE}, body : Body \cup {NoBody},
                     outcome : {"accepted", "failed_500", "none"}] /\ Unclaimed.charge = NONE
  BY DEF Unclaimed
<1>3. NoRefund \in [refund : RefundId \cup {NONE}, body : Body \cup {NoBody},
                    row : {"none", "void", "refund"}]
      /\ NoRefund.refund = NONE /\ NoRefund.row = "none"
  BY DEF NoRefund
<1>4. ProviderTypeOK
  BY <1>2, <1>3, WireEmptied DEF ProviderTypeOK
<1>5. RequestsInOrder
  BY DEF RequestsInOrder, InOrder
<1>6. KeysUnique /\ OutcomesFinal /\ RefundsBacked
  BY <1>1 DEF KeysUnique, OutcomesFinal, RefundsBacked
<1>7. ClaimsBacked /\ RefundClaimsBacked
  BY <1>2, <1>3 DEF ClaimsBacked, RefundClaimsBacked
<1> QED BY <1>4, <1>5, <1>6, <1>7 DEF ProviderInv
=============================================================================
