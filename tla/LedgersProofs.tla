---------------------------- MODULE LedgersProofs ----------------------------
(***************************************************************************)
(* Proofs about the provider over either of its ledgers: a key stands for  *)
(* one charge, refunds never exceed it, an outcome is announced once, and  *)
(* money moves as Bank promises.                                           *)
(***************************************************************************)
EXTENDS Ledgers, PaygateProofs, SumsProofs

-----------------------------------------------------------------------------
(* The refunds of a charge. *)
Back(c) == {d \in Minted(refunds) : refunds[d].charge = c}

(* An id that an import brings has the key it was imported with. *)
ImportsKnown ==
  \A row \in ImportRows : charges[row.id] # Unused => charges[row.id].key = row.key

(* Between the two statements of an import its charges are there. *)
ImportsStaged == \A row \in importing : charges[row.id] # Unused

(* A 202 that is still to be collected names the charge of its key. *)
AnswersStand ==
  \A r \in Request :
    /\ store = "postgres"
    /\ http[r].at = "answered" /\ http[r].op = "charge" /\ http[r].code = 202
    => http[r].id = chargeClaim[http[r].key].charge /\ http[r].id # NONE

(* refunded_minor is what was refunded before and since, within the amount. *)
RefundsCounted ==
  \A c \in Minted(charges) :
    /\ charges[c].refunded <= charges[c].amount
    /\ charges[c].refunded = RefundedBefore(c) + SumOf(Back(c))

LInv == /\ ProviderInv /\ store \in Stores /\ importing \subseteq ImportRows
        /\ ImportsKnown /\ ImportsStaged /\ AnswersStand /\ RefundsCounted

(* How a step may change the two tables of money.  It moves no money: rows  *)
(* stay, and at most a charge comes to life; *)
RowsKept ==
  /\ \A c \in ChargeId :
       /\ charges'[c] = Unused <=> charges[c] = Unused
       /\ charges'[c].key = charges[c].key /\ charges'[c].amount = charges[c].amount
       /\ charges'[c].refunded = charges[c].refunded
       /\ charges[c].status # "processing" => charges'[c].status = charges[c].status
  /\ \A d \in RefundId :
       /\ refunds'[d] = Unused <=> refunds[d] = Unused
       /\ refunds'[d].charge = refunds[d].charge /\ refunds'[d].amount = refunds[d].amount

(* or it opens a charge that has no outcome yet; *)
ChargeOpened ==
  \E c \in ChargeId \ SeedId :
    /\ charges[c] = Unused /\ charges'[c] \in Charge
    /\ charges'[c].status = "processing" /\ charges'[c].refunded = 0
    /\ \A x \in ChargeId : x # c => charges'[x] = charges[x]
    /\ refunds' = refunds

(* or it takes a refund from a captured charge that has as much left; *)
RefundMade ==
  \E c \in ChargeId, d \in RefundId, n \in Amounts :
    /\ charges[c] # Unused /\ charges[c].status = "succeeded" /\ ~Exceeds(c, n)
    /\ charges'[c] \in Charge /\ charges'[c].refunded = charges[c].refunded + n
    /\ charges'[c].key = charges[c].key /\ charges'[c].amount = charges[c].amount
    /\ charges'[c].status = charges[c].status
    /\ \A x \in ChargeId : x # c => charges'[x] = charges[x]
    /\ refunds[d] = Unused /\ refunds'[d] # Unused
    /\ refunds'[d].charge = c /\ refunds'[d].amount = n
    /\ \A x \in RefundId : x # d => refunds'[x] = refunds[x]

(* or it imports charges under keys that have none; *)
ChargesImported ==
  \E batch \in SUBSET ImportRows :
    /\ \A row \in Missing(batch) : ~KeyTaken(row.key)
    /\ charges' = WithCharges(batch) /\ refunds' = refunds

(* or it forgets all of it. *)
Emptied ==
  /\ store = "memory"
  /\ charges' = [c \in ChargeId |-> Unused] /\ refunds' = [d \in RefundId |-> Unused]

(* Opening a charge adds a row without an outcome, or none.                 *)
LEMMA OpenChargeMoney ==
  ASSUME ProviderInv, NEW r \in Request, OpenCharge(r)
  PROVE  RowsKept \/ ChargeOpened
<1> USE DEF ProviderInv
<1>1. CASE UNCHANGED <<charges, chargeClaim>>
  BY <1>1 DEF RowsKept, OpenCharge
<1>2. ASSUME FreshCharges # {}, NEW new,
             new = [key |-> http[r].key, reference |-> http[r].body.of,
                    amount |-> http[r].body.amount, status |-> "processing",
                    materialised |-> FALSE, refunded |-> 0],
             charges' = [charges EXCEPT ![NextId(FreshCharges)] = new]
      PROVE  ChargeOpened
  <2> DEFINE c == NextId(FreshCharges)
  <2>1. c \in FreshCharges
    BY <1>2, Drawn
  <2>2. c \in ChargeId \ SeedId /\ charges[c] = Unused
    BY <2>1 DEF FreshCharges, Minted, ProviderTypeOK
  <2> HIDE DEF c
  <2>3. new.status = "processing" /\ new.refunded = 0
    BY <1>2
  <2>4. charges'[c] = new /\ \A x \in ChargeId : x # c => charges'[x] = charges[x]
    BY <1>2, <2>2 DEF ProviderTypeOK, c
  <2>5. new \in Charge
    <3>1. http[r] # Idle /\ http[r] \in Call
      BY NotARow DEF OpenCharge, ProviderTypeOK
    <3>2. http[r].key \in ChargeKey /\ http[r].body.of \in Reference /\ http[r].body \in Body
      BY <3>1 DEF OpenCharge, RequestsInOrder, InOrder, ChargeRequest, RefundRequest, Call
    <3> QED BY <1>2, <3>2 DEF Charge, Body
  <2>6. refunds' = refunds
    BY DEF OpenCharge
  <2> QED BY <2>2, <2>3, <2>4, <2>5, <2>6 DEF ChargeOpened
<1> QED BY <1>1, <1>2 DEF OpenCharge

(* Settling a charge changes neither its key nor its amount.                *)
LEMMA MaterialiseChargeMoney ==
  ASSUME ProviderInv, NEW r \in Request, MaterialiseCharge(r)
  PROVE  RowsKept
<1> USE DEF ProviderInv
<1> DEFINE c == http[r].id
           outcome == IF charges[c].amount = DECLINE_AMOUNT THEN "failed" ELSE "succeeded"
           new == [charges[c] EXCEPT !.materialised = TRUE, !.status = outcome]
<1>1. CASE charges' = charges
  BY <1>1 DEF RowsKept, MaterialiseCharge
<1>2. CASE ~charges[c].materialised /\ charges' = [charges EXCEPT ![c] = new]
  <2>1. http[r] # Idle /\ http[r] \in Call
    BY NotARow DEF MaterialiseCharge, ProviderTypeOK
  <2>2. http[r].key \in ChargeKey /\ c = chargeClaim[http[r].key].charge /\ c # NONE
    BY <2>1 DEF MaterialiseCharge, RequestsInOrder, InOrder, ChargeRequest, RefundRequest
  <2>3. c \in ChargeId /\ charges[c] # Unused /\ charges[c] \in Charge
    BY <2>2 DEF ClaimsBacked, ProviderTypeOK
  <2>4. c \in Minted(charges)
    BY <2>3 DEF Minted, ProviderTypeOK
  <2>5. charges[c].status = "processing"
    BY <1>2, <2>4 DEF OutcomesFinal
  <2>6. /\ new.key = charges[c].key /\ new.amount = charges[c].amount
        /\ new.refunded = charges[c].refunded /\ new.materialised = TRUE
    BY <2>3 DEF Charge
  <2>7. new # Unused
    BY <2>6, NotARow
  <2> HIDE DEF new
  <2>8. charges'[c] = new /\ \A x \in ChargeId : x # c => charges'[x] = charges[x]
    BY <1>2, <2>3 DEF ProviderTypeOK
  <2>9. refunds' = refunds
    BY DEF MaterialiseCharge
  <2> QED BY <2>3, <2>5, <2>6, <2>7, <2>8, <2>9 DEF RowsKept
<1> QED BY <1>1, <1>2 DEF MaterialiseCharge

(* Settling a refund changes neither its charge nor its amount.             *)
LEMMA MaterialiseRefundMoney ==
  ASSUME ProviderInv, NEW r \in Request, MaterialiseRefund(r)
  PROVE  RowsKept
<1> USE DEF ProviderInv
<1> DEFINE d == http[r].id
           new == [refunds[d] EXCEPT !.materialised = TRUE]
<1>1. CASE refunds' = refunds
  BY <1>1 DEF RowsKept, MaterialiseRefund
<1>2. CASE refunds' = [refunds EXCEPT ![d].materialised = TRUE]
  <2>1. http[r] # Idle /\ http[r] \in Call
    BY NotARow DEF MaterialiseRefund, ProviderTypeOK
  <2>2. http[r].key \in RefundKey /\ d = refundClaim[http[r].key].refund /\ d # NONE
    BY <2>1 DEF MaterialiseRefund, RequestsInOrder, InOrder, ChargeRequest, RefundRequest
  <2>3. d \in RefundId /\ refunds[d] # Unused /\ refunds[d] \in Refund
    BY <2>2 DEF RefundClaimsBacked, ProviderTypeOK
  <2>4. /\ new.charge = refunds[d].charge /\ new.amount = refunds[d].amount
        /\ new.materialised = TRUE
    BY <2>3 DEF Refund
  <2>5. new # Unused
    BY <2>4, NotARow
  <2>6. refunds' = [refunds EXCEPT ![d] = new]
    BY <1>2
  <2> HIDE DEF new
  <2>7. refunds'[d] = new /\ \A x \in RefundId : x # d => refunds'[x] = refunds[x]
    BY <2>3, <2>6 DEF ProviderTypeOK
  <2>8. charges' = charges
    BY DEF MaterialiseRefund
  <2> QED BY <2>3, <2>4, <2>5, <2>7, <2>8 DEF RowsKept
<1> QED BY <1>1, <1>2 DEF MaterialiseRefund

(* A refund that is accepted fits under its charge with the others.         *)
LEMMA TakeRefundMoney ==
  ASSUME ProviderInv, NEW r \in Request, http[r].at = "posted", http[r].op = "refund",
         refundClaim[http[r].key].row = "none", TakeRefund(r),
         RefundVerdict(http[r].body.of, http[r].body.amount) = 202
  PROVE  RefundMade
<1>1. Refundable(http[r].body.of) /\ ~Exceeds(http[r].body.of, http[r].body.amount)
  BY Verdicts
<1> DEFINE c == http[r].body.of
           n == http[r].body.amount
           d == NextId(FreshRefunds)
<1>2. /\ c \in ChargeId /\ d \in RefundId /\ n \in Amounts
      /\ charges[c] # Unused /\ charges[c].status = "succeeded" /\ ~Exceeds(c, n)
      /\ refunds[d] = Unused /\ refunds'[d] # Unused
      /\ refunds'[d].charge = c /\ refunds'[d].amount = n
      /\ \A x \in RefundId : x # d => refunds'[x] = refunds[x]
      /\ charges' = [charges EXCEPT ![c].refunded = @ + n]
  BY <1>1, RefundTaken
<1> HIDE DEF c, n, d
<1>3. n \in Nat
  BY <1>2, LedgerAssumption
<1>4. /\ charges'[c] \in Charge /\ charges'[c].refunded = charges[c].refunded + n
      /\ charges'[c].key = charges[c].key /\ charges'[c].amount = charges[c].amount
      /\ charges'[c].status = charges[c].status
      /\ \A x \in ChargeId : x # c => charges'[x] = charges[x]
  <2>1. /\ c \in ChargeId /\ charges[c] # Unused
        /\ charges' = [charges EXCEPT ![c].refunded = @ + n]
    BY <1>2
  <2>2. charges[c] \in Charge
    BY <2>1 DEF ProviderInv, ProviderTypeOK
  <2> DEFINE new == [charges[c] EXCEPT !.refunded = @ + n]
  <2>3. /\ new \in Charge /\ new.refunded = charges[c].refunded + n /\ new.key = charges[c].key
        /\ new.amount = charges[c].amount /\ new.status = charges[c].status
    BY <1>3, <2>2 DEF Charge
  <2>4. charges' = [charges EXCEPT ![c] = new] /\ charges \in [ChargeId -> Charge \cup {Unused}]
    BY <2>1 DEF ProviderInv, ProviderTypeOK
  <2> HIDE DEF new
  <2> QED BY <2>1, <2>3, <2>4
<1> QED BY <1>2, <1>4 DEF RefundMade

-----------------------------------------------------------------------------
(* What a handler answers, and the claims it leaves.  Slots hold no charge  *)
(* that their key does not stand for.                                       *)
Truthful(r) ==
  http[r].at = "answered" /\ http[r].op = "charge" /\ http[r].code = 202
    => http[r].id = chargeClaim[http[r].key].charge /\ http[r].id # NONE

ChargeClaimsStay ==
  \A k \in ChargeKey : chargeClaim[k].charge # NONE => chargeClaim'[k].charge = chargeClaim[k].charge

HandlerStep(r) == /\ ChargeClaimsStay /\ Truthful(r)'
                  /\ \A q \in Request : q # r => http'[q] = http[q]

(* A step that answers with something other than a charge. *)
LEMMA AnswersOther ==
  ASSUME ProviderInv, NEW r \in Request, http[r] # Idle, NEW code \in Codes, NEW id \in Nat,
         Answer(r, code, id), code # 202 \/ http[r].op # "charge", chargeClaim' = chargeClaim
  PROVE  HandlerStep(r)
<1>1. /\ \A q \in Request : q # r => http'[q] = http[q]
      /\ http'[r].code = code /\ http'[r].op = http[r].op
  BY Answering
<1> QED BY <1>1 DEF HandlerStep, ChargeClaimsStay, Truthful

(* A step that answers with the charge of the key. *)
LEMMA AnswersCharge ==
  ASSUME ProviderInv, NEW r \in Request, http[r] # Idle, NEW id \in Nat, id # NONE,
         Answer(r, 202, id), id = chargeClaim[http[r].key].charge, chargeClaim' = chargeClaim
  PROVE  HandlerStep(r)
<1>1. 202 \in Codes
  BY DEF Codes
<1>2. /\ \A q \in Request : q # r => http'[q] = http[q]
      /\ http'[r].id = id /\ http'[r].key = http[r].key
  BY <1>1, Answering
<1> QED BY <1>2 DEF HandlerStep, ChargeClaimsStay, Truthful

(* A step that moves its handler on. *)
LEMMA MovesOn ==
  ASSUME ProviderInv, NEW r \in Request, http[r] # Idle, NEW id \in Nat,
         NEW at \in {"recovering", "opened"}, Proceed(r, at, id), ChargeClaimsStay
  PROVE  HandlerStep(r)
<1>1. /\ \A q \in Request : q # r => http'[q] = http[q]
      /\ http'[r].at = at
  BY Moving
<1> QED BY <1>1 DEF HandlerStep, Truthful

(* A charge's first transaction: a 202 names the charge its key is claimed  *)
(* by.                                                                      *)
LEMMA OpenChargeAnswers ==
  ASSUME ProviderInv, NEW r \in Request, OpenCharge(r)
  PROVE  HandlerStep(r)
<1> USE DEF ProviderInv
<1> DEFINE k == http[r].key
           claim == chargeClaim[k]
<1>1. http[r] # Idle /\ http[r] \in Call
  BY NotARow DEF OpenCharge, ProviderTypeOK
<1>2. k \in ChargeKey
  BY <1>1 DEF OpenCharge, RequestsInOrder, InOrder, ChargeRequest, RefundRequest
<1>3. {409, 500} \subseteq Codes /\ NONE \in Nat /\ ChargeId \subseteq Nat
  BY LedgerAssumption DEF Codes, NONE
<1>4. claim.charge \in Nat
  <2>1. claim.charge \in ChargeId \cup {NONE}
    BY <1>2 DEF ProviderTypeOK
  <2> QED BY <1>3, <2>1
<1>5. CASE /\ chargeClaim' = chargeClaim
           /\ Answer(r, 409, NONE) \/ Answer(r, 500, NONE)
  BY <1>1, <1>3, <1>5, AnswersOther
<1>6. CASE chargeClaim' = chargeClaim /\ claim.charge # NONE /\ Answer(r, 202, claim.charge)
  BY <1>1, <1>4, <1>6, AnswersCharge
<1>7. CASE chargeClaim' = chargeClaim /\ Proceed(r, "recovering", claim.charge)
  BY <1>1, <1>4, <1>7, MovesOn DEF ChargeClaimsStay
<1>8. ASSUME claim.charge = NONE, FreshCharges # {}, NEW new,
             chargeClaim' = [chargeClaim EXCEPT ![k] = new],
             Answer(r, 500, NONE) \/ Proceed(r, "opened", NextId(FreshCharges))
      PROVE  HandlerStep(r)
  <2>1. NextId(FreshCharges) \in Nat
    BY <1>3, <1>8, Drawn DEF FreshCharges
  <2>2. ChargeClaimsStay
    BY <1>2, <1>8 DEF ChargeClaimsStay, ProviderTypeOK
  <2>3. CASE Answer(r, 500, NONE)
    <3>1. /\ \A q \in Request : q # r => http'[q] = http[q]
          /\ http'[r].code = 500
      BY <1>1, <1>3, <2>3, Answering
    <3> QED BY <2>2, <3>1 DEF HandlerStep, Truthful
  <2>4. CASE Proceed(r, "opened", NextId(FreshCharges))
    BY <1>1, <2>1, <2>2, <2>4, MovesOn
  <2> QED BY <1>8, <2>3, <2>4
<1>9. \/ chargeClaim' = chargeClaim /\ (Answer(r, 409, NONE) \/ Answer(r, 500, NONE))
      \/ chargeClaim' = chargeClaim /\ claim.charge # NONE /\ Answer(r, 202, claim.charge)
      \/ chargeClaim' = chargeClaim /\ Proceed(r, "recovering", claim.charge)
      \/ /\ claim.charge = NONE /\ FreshCharges # {}
         /\ \E new : chargeClaim' = [chargeClaim EXCEPT ![k] = new]
         /\ Answer(r, 500, NONE) \/ Proceed(r, "opened", NextId(FreshCharges))
  BY DEF OpenCharge
<1> QED BY <1>5, <1>6, <1>7, <1>8, <1>9

(* The later steps of a handler pass the id of the first one on.            *)
LEMMA OtherStepsAnswer ==
  ASSUME ProviderInv, NEW r \in Request,
         RecoverCharge(r) \/ MaterialiseCharge(r) \/ MaterialiseRefund(r)
  PROVE  HandlerStep(r)
<1> USE DEF ProviderInv
<1>1. http[r] # Idle /\ http[r] \in Call /\ http[r].id \in Nat
  BY NotARow DEF RecoverCharge, MaterialiseCharge, MaterialiseRefund, ProviderTypeOK, Call
<1>2. CASE RecoverCharge(r)
  <2>1. http[r].key \in ChargeKey
    BY <1>1, <1>2 DEF RecoverCharge, RequestsInOrder, InOrder, ChargeRequest, RefundRequest
  <2>2. ChargeClaimsStay
    BY <1>2, <2>1 DEF RecoverCharge, ChargeClaimsStay, ProviderTypeOK
  <2> QED BY <1>1, <1>2, <2>2, MovesOn DEF RecoverCharge
<1>3. CASE MaterialiseCharge(r)
  <2>1. http[r].id = chargeClaim[http[r].key].charge /\ http[r].id # NONE
    BY <1>1, <1>3 DEF MaterialiseCharge, RequestsInOrder, InOrder
  <2> QED BY <1>1, <1>3, <2>1, AnswersCharge DEF MaterialiseCharge
<1>4. CASE MaterialiseRefund(r)
  <2>1. 202 \in Codes /\ http[r].op # "charge"
    BY <1>4 DEF Codes, MaterialiseRefund
  <2> QED BY <1>1, <1>4, <2>1, AnswersOther DEF MaterialiseRefund
<1> QED BY <1>2, <1>3, <1>4

(* openRefund over either ledger: the invariant, the tables and the answer. *)
LEMMA OpenRefundSteps ==
  ASSUME ProviderInv, NEW r \in Request, OpenRefund(r) \/ MemoryOpenRefund(r)
  PROVE  ProviderInv' /\ (RowsKept \/ RefundMade) /\ HandlerStep(r)
<1> DEFINE verdict == RefundVerdict(http[r].body.of, http[r].body.amount)
<1>1. /\ http[r].at = "posted" /\ http[r].op = "refund" /\ UNCHANGED <<chargeClaim, wire>>
  BY DEF OpenRefund, MemoryOpenRefund
<1>2. /\ http[r] # Idle /\ refundClaim[http[r].key].refund \in Nat /\ NONE \in Nat
      /\ {202, 404, 409, 422, 500} \subseteq Codes
  BY <1>1, RefundPosted DEF NONE, Codes
<1>3. verdict \in {404, 409, 422, 202} /\ verdict \in Codes
  BY <1>2, Verdicts
<1>4. CASE ReplayRefund(r)
  <2>1. RowsKept
    BY <1>4 DEF ReplayRefund, RowsKept
  <2>2. \E code \in Codes, id \in Nat : Answer(r, code, id)
    BY <1>2, <1>4 DEF ReplayRefund
  <2>3. HandlerStep(r)
    BY <1>1, <1>2, <2>2, AnswersOther
  <2> QED BY <1>1, <1>4, <2>1, <2>3, ReplayRefundKept
<1>5. CASE refundClaim[http[r].key].row = "none" /\ verdict = 202 /\ TakeRefund(r)
  <2>1. RefundMade
    BY <1>1, <1>5, TakeRefundMoney
  <2>2. HandlerStep(r)
    <3>1. NextId(FreshRefunds) \in Nat
      BY <1>5, Drawn, LedgerAssumption DEF TakeRefund, FreshRefunds
    <3> QED BY <1>1, <1>2, <1>5, <3>1, MovesOn DEF TakeRefund, ChargeClaimsStay
  <2>3. Refundable(http[r].body.of)
    BY <1>5, Verdicts
  <2> QED BY <1>1, <1>5, <2>1, <2>2, <2>3, TakeRefundKept
<1>6. CASE refundClaim[http[r].key].row = "none" /\ Refuse(r, verdict)
  <2>1. RowsKept
    BY <1>6 DEF Refuse, RowsKept
  <2>2. HandlerStep(r)
    BY <1>1, <1>2, <1>3, <1>6, AnswersOther DEF Refuse
  <2> QED BY <1>1, <1>3, <1>6, <2>1, <2>2, RefuseKept
<1>7. CASE Answer(r, verdict, NONE) /\ UNCHANGED <<charges, refunds, refundClaim>>
  <2>1. RowsKept
    BY <1>7 DEF RowsKept
  <2>2. HandlerStep(r)
    BY <1>1, <1>2, <1>3, <1>7, AnswersOther
  <2> QED BY <1>1, <1>2, <1>3, <1>7, <2>1, <2>2, OnlyAnswers
<1> QED BY <1>4, <1>5, <1>6, <1>7 DEF OpenRefund, MemoryOpenRefund

(* Every step of a handler, over either ledger. *)
LEMMA Handlers ==
  ASSUME ProviderInv, NEW r \in Request, HandleWith(r)
  PROVE  ProviderInv' /\ (RowsKept \/ ChargeOpened \/ RefundMade) /\ HandlerStep(r)
<1>1. \/ OpenCharge(r) \/ RecoverCharge(r) \/ MaterialiseCharge(r) \/ MaterialiseRefund(r)
      \/ OpenRefund(r) \/ MemoryOpenRefund(r)
  BY DEF HandleWith, Handle, HandleInMemory, MemoryOpenCharge, MemoryRecover, MemoryMaterialise
<1>2. CASE OpenCharge(r)
  BY <1>2, OpenChargeKept, OpenChargeMoney, OpenChargeAnswers
<1>3. CASE RecoverCharge(r)
  <2>1. RowsKept
    BY <1>3 DEF RecoverCharge, RowsKept
  <2> QED BY <1>3, <2>1, RecoverChargeKept, OtherStepsAnswer
<1>4. CASE MaterialiseCharge(r)
  BY <1>4, MaterialiseChargeKept, MaterialiseChargeMoney, OtherStepsAnswer
<1>5. CASE MaterialiseRefund(r)
  BY <1>5, MaterialiseRefundKept, MaterialiseRefundMoney, OtherStepsAnswer
<1>6. CASE OpenRefund(r) \/ MemoryOpenRefund(r)
  BY <1>6, OpenRefundSteps
<1> QED BY <1>1, <1>2, <1>3, <1>4, <1>5, <1>6

-----------------------------------------------------------------------------
(* What the first statement of an import does to the charges. *)
LEMMA ChargesWith ==
  ASSUME ProviderInv, NEW batch \in SUBSET ImportRows
  PROVE  /\ WithCharges(batch) \in [ChargeId -> Charge \cup {Unused}]
         /\ \A row \in Missing(batch) :
              /\ row.id \in ChargeId /\ charges[row.id] = Unused /\ AsCharge(row) \in Charge
              /\ WithCharges(batch)[row.id] = AsCharge(row)
         /\ \A c \in ChargeId : (\A row \in Missing(batch) : row.id # c)
                                  => WithCharges(batch)[c] = charges[c]
<1> USE DEF ProviderInv
<1>1. ASSUME NEW row \in ImportRows
      PROVE  row.id \in ChargeId /\ AsCharge(row) \in Charge
  <2>1. /\ row.id \in SeedId /\ row.key \in ChargeKey /\ row.reference \in Reference
        /\ row.amount \in Amounts /\ row.refunded \in Nat
    BY ImportAssumption, Zenon
  <2> QED BY <2>1, LedgerAssumption DEF AsCharge, Charge
<1>2. ASSUME NEW row \in Missing(batch) PROVE (CHOOSE other \in batch : other.id = row.id) = row
  <2>1. row \in batch /\ \A other \in batch : other.id = row.id => other = row
    BY ImportAssumption DEF Missing
  <2> QED BY <2>1
<1>3. ASSUME NEW row \in Missing(batch) PROVE WithCharges(batch)[row.id] = AsCharge(row)
  <2>1. row.id \in ChargeId
    BY <1>1 DEF Missing
  <2> QED BY <1>2, <2>1 DEF WithCharges
<1>4. ASSUME NEW c \in ChargeId PROVE WithCharges(batch)[c] \in Charge \cup {Unused}
  <2>1. CASE \E row \in Missing(batch) : row.id = c
    BY <1>1, <1>3, <2>1 DEF Missing
  <2>2. CASE ~\E row \in Missing(batch) : row.id = c
    BY <2>2 DEF WithCharges, ProviderTypeOK
  <2> QED BY <2>1, <2>2
<1>5. WithCharges(batch) \in [ChargeId -> Charge \cup {Unused}]
  BY <1>4 DEF WithCharges
<1>6. ASSUME NEW c \in ChargeId, \A row \in Missing(batch) : row.id # c
      PROVE  WithCharges(batch)[c] = charges[c]
  BY <1>6 DEF WithCharges
<1> QED BY <1>1, <1>3, <1>5, <1>6 DEF Missing

(* The fields of an imported charge. *)
LEMMA Imported ==
  ASSUME NEW row
  PROVE  /\ AsCharge(row).key = row.key /\ AsCharge(row).status = "succeeded"
         /\ AsCharge(row).materialised = TRUE /\ AsCharge(row).amount = row.amount
         /\ AsCharge(row).refunded = row.refunded
  BY DEF AsCharge

(* An import under keys that have no charge keeps the tables in order. *)
LEMMA ImportKeepsTables ==
  ASSUME ProviderInv, NEW batch \in SUBSET ImportRows,
         \A row \in Missing(batch) : ~KeyTaken(row.key),
         charges' = WithCharges(batch), refunds' = refunds, refundClaim' = refundClaim
  PROVE  /\ charges' \in [ChargeId -> Charge \cup {Unused}]
         /\ \A c \in ChargeId : charges[c] # Unused => charges'[c] = charges[c]
         /\ \A row \in batch : charges'[row.id] # Unused
         /\ KeysUnique' /\ OutcomesFinal' /\ RefundsBacked' /\ RefundClaimsBacked'
<1> USE DEF ProviderInv
<1>1. /\ charges' \in [ChargeId -> Charge \cup {Unused}]
      /\ \A row \in Missing(batch) :
           /\ row.id \in ChargeId /\ charges[row.id] = Unused /\ AsCharge(row) \in Charge
           /\ charges'[row.id] = AsCharge(row)
      /\ \A c \in ChargeId : (\A row \in Missing(batch) : row.id # c) => charges'[c] = charges[c]
  BY ChargesWith
<1>2. \A c \in ChargeId : charges[c] # Unused => charges'[c] = charges[c]
  BY <1>1
<1>3. \A row \in batch : row.id \in ChargeId /\ charges'[row.id] # Unused
  <2> SUFFICES ASSUME NEW row \in batch PROVE row.id \in ChargeId /\ charges'[row.id] # Unused
    OBVIOUS
  <2>1. row.id \in ChargeId
    BY ImportAssumption, LedgerAssumption
  <2>2. CASE charges[row.id] = Unused
    BY <1>1, <2>2, NotARow DEF Missing
  <2>3. CASE charges[row.id] # Unused
    BY <1>2, <2>1, <2>3
  <2> QED BY <2>1, <2>2, <2>3
<1>4. \A c \in Minted(charges') : \/ c \in Minted(charges) /\ charges'[c] = charges[c]
                                  \/ \E row \in Missing(batch) : row.id = c /\ charges'[c] = AsCharge(row)
  BY <1>1 DEF Minted, ProviderTypeOK
<1>5. KeysUnique'
  <2> SUFFICES ASSUME NEW c \in Minted(charges'), NEW d \in Minted(charges'),
                      charges'[c].key = charges'[d].key
               PROVE  c = d
    BY DEF KeysUnique
  <2>1. CASE c \in Minted(charges) /\ charges'[c] = charges[c]
    <3>1. ASSUME NEW row \in Missing(batch), row.id = d, charges'[d] = AsCharge(row) PROVE FALSE
      <4>1. charges[c].key = row.key
        BY <2>1, <3>1, Imported
      <4>2. KeyTaken(row.key)
        BY <2>1, <4>1 DEF KeyTaken
      <4> QED BY <4>2
    <3> QED BY <1>4, <2>1, <3>1 DEF KeysUnique
  <2>2. ASSUME NEW row \in Missing(batch), row.id = c, charges'[c] = AsCharge(row) PROVE c = d
    <3>1. CASE d \in Minted(charges) /\ charges'[d] = charges[d]
      <4>1. charges[d].key = row.key
        BY <2>2, <3>1, Imported
      <4>2. KeyTaken(row.key)
        BY <3>1, <4>1 DEF KeyTaken
      <4> QED BY <4>2
    <3>2. ASSUME NEW other \in Missing(batch), other.id = d, charges'[d] = AsCharge(other)
          PROVE  c = d
      <4>1. row \in ImportRows /\ other \in ImportRows /\ row.key = other.key
        BY <2>2, <3>2, Imported DEF Missing
      <4> QED BY <2>2, <3>2, <4>1, ImportAssumption
    <3> QED BY <1>4, <3>1, <3>2
  <2> QED BY <1>4, <2>1, <2>2
<1>6. OutcomesFinal'
  <2> SUFFICES ASSUME NEW c \in Minted(charges')
               PROVE  charges'[c].materialised <=> charges'[c].status # "processing"
    BY DEF OutcomesFinal
  <2>1. CASE c \in Minted(charges) /\ charges'[c] = charges[c]
    BY <2>1 DEF OutcomesFinal
  <2>2. ASSUME NEW row \in Missing(batch), charges'[c] = AsCharge(row)
        PROVE  charges'[c].materialised <=> charges'[c].status # "processing"
    BY <2>2, Imported
  <2> QED BY <1>4, <2>1, <2>2
<1>7. RefundsBacked'
  <2>1. \A d \in Minted(refunds) : /\ refunds[d].charge \in ChargeId
                                   /\ charges[refunds[d].charge] # Unused
    BY NotARow DEF Minted, ProviderTypeOK, Refund, RefundsBacked
  <2> QED BY <1>2, <2>1 DEF RefundsBacked, Minted
<1>8. RefundClaimsBacked'
  BY DEF RefundClaimsBacked
<1> QED BY <1>1, <1>2, <1>3, <1>5, <1>6, <1>7, <1>8

(* What its claims do: every key of the batch stands for its charge. *)
LEMMA ClaimsWith ==
  ASSUME ProviderInv, NEW batch \in SUBSET ImportRows
  PROVE  /\ WithClaims(batch) \in [ChargeKey -> [charge : ChargeId \cup {NONE}, body : Body \cup {NoBody},
                                                 outcome : {"accepted", "failed_500", "none"}]]
         /\ \A k \in ChargeKey :
              \/ /\ \A row \in batch : row.key # k
                 /\ WithClaims(batch)[k] = chargeClaim[k]
              \/ \E row \in batch : row.key = k /\ WithClaims(batch)[k].charge = row.id
<1> USE DEF ProviderInv
<1> DEFINE Claim == [charge : ChargeId \cup {NONE}, body : Body \cup {NoBody},
                     outcome : {"accepted", "failed_500", "none"}]
<1>1. ASSUME NEW row \in batch PROVE ClaimOf(row) \in Claim /\ ClaimOf(row).charge = row.id
  <2>1. row.id \in ChargeId
    BY ImportAssumption, LedgerAssumption
  <2> QED BY <2>1 DEF ClaimOf
<1> HIDE DEF Claim
<1>2. ASSUME NEW k \in ChargeKey
      PROVE  /\ WithClaims(batch)[k] \in Claim
             /\ \/ (\A row \in batch : row.key # k) /\ WithClaims(batch)[k] = chargeClaim[k]
                \/ \E row \in batch : row.key = k /\ WithClaims(batch)[k].charge = row.id
  <2>1. CASE \A row \in batch : row.key # k
    BY <2>1 DEF WithClaims, ProviderTypeOK, Claim
  <2>2. CASE \E row \in batch : row.key = k
    <3> DEFINE row == CHOOSE row \in batch : row.key = k
    <3>1. row \in batch /\ row.key = k
      BY <2>2
    <3>2. WithClaims(batch)[k] = ClaimOf(row)
      BY <2>2 DEF WithClaims
    <3> HIDE DEF row
    <3> QED BY <1>1, <3>1, <3>2
  <2> QED BY <2>1, <2>2
<1>3. WithClaims(batch) \in [ChargeKey -> Claim]
  BY <1>2 DEF WithClaims
<1> QED BY <1>2, <1>3 DEF Claim

-----------------------------------------------------------------------------
(* Counting what went back. *)
AmountsOf(table) == [d \in RefundId |-> table[d].amount]

(* The amounts of minted refunds are naturals, and so is their sum. *)
LEMMA SumsOf ==
  ASSUME NEW table \in [RefundId -> Refund \cup {Unused}], NEW ids \in SUBSET Minted(table)
  PROVE  /\ ids \subseteq RefundId /\ IsFiniteSet(ids)
         /\ \A d \in ids : AmountsOf(table)[d] \in Nat
         /\ SumOver([d \in ids |-> table[d].amount], ids) = SumOver(AmountsOf(table), ids)
         /\ SumOver(AmountsOf(table), ids) \in Nat
<1>1. ids \subseteq RefundId
  BY DEF Minted
<1>2. IsFiniteSet(ids)
  BY <1>1, LedgerAssumption, FS_Subset
<1>3. \A d \in ids : AmountsOf(table)[d] \in Nat
  <2> SUFFICES ASSUME NEW d \in ids PROVE table[d].amount \in Nat
    BY <1>1 DEF AmountsOf
  <2>1. table[d] \in Refund
    BY DEF Minted
  <2>2. table[d].amount \in Amounts
    BY <2>1, Zenon DEF Refund
  <2> QED BY <2>2, LedgerAssumption
<1>5. SumOver([d \in ids |-> table[d].amount], ids) = SumOver(AmountsOf(table), ids)
  <2> DEFINE f == [d \in ids |-> table[d].amount]
  <2>1. \A d \in ids : f[d] = AmountsOf(table)[d]
    BY <1>1 DEF AmountsOf
  <2> HIDE DEF f
  <2>2. SumOver(f, ids) = SumOver(AmountsOf(table), ids)
    BY <2>1, SumSame
  <2> QED BY <2>2 DEF f
<1>6. SumOver(AmountsOf(table), ids) \in Nat
  BY <1>2, <1>3, SumIsNat
<1> QED BY <1>1, <1>2, <1>3, <1>5, <1>6

(* Nothing went back from a charge that is not there. *)
LEMMA NothingBack ==
  ASSUME ProviderInv, NEW c \in ChargeId, charges[c] = Unused
  PROVE  Back(c) = {} /\ SumOf(Back(c)) = 0
<1>1. Back(c) = {}
  BY NotARow DEF Back, ProviderInv, RefundsBacked
<1> QED BY <1>1, SumOfNone DEF SumOf

(* A charge and its refunds as they were count as they did. *)
LEMMA CountsSame ==
  ASSUME ProviderTypeOK, ProviderTypeOK', NEW c, Back(c)' = Back(c),
         \A d \in Back(c) : refunds'[d].amount = refunds[d].amount
  PROVE  SumOf(Back(c))' = SumOf(Back(c))
<1>1. [d \in Back(c)' |-> refunds'[d].amount] = [d \in Back(c) |-> refunds[d].amount]
  OBVIOUS
<1> QED BY <1>1 DEF SumOf

(* A step that keeps every row keeps the count of what was returned.        *)
LEMMA KeptCounted ==
  ASSUME LInv, ProviderInv', RowsKept
  PROVE  RefundsCounted' /\ ImportsKnown'
<1> USE DEF LInv
<1>1. ProviderTypeOK /\ ProviderTypeOK'
  BY DEF ProviderInv
<1>2. Minted(charges') = Minted(charges) /\ Minted(refunds') = Minted(refunds)
      /\ Minted(charges) \subseteq ChargeId /\ Minted(refunds) \subseteq RefundId
  BY <1>1 DEF RowsKept, Minted, ProviderTypeOK
<1>3. ASSUME NEW c \in Minted(charges)
      PROVE  SumOf(Back(c))' = SumOf(Back(c))
  <2>1. Back(c)' = Back(c)
    BY <1>2 DEF Back, RowsKept
  <2>2. \A d \in Back(c) : refunds'[d].amount = refunds[d].amount
    BY <1>2 DEF Back, RowsKept
  <2> QED BY <1>1, <2>1, <2>2, CountsSame
<1>4. RefundsCounted'
  <2> SUFFICES ASSUME NEW c \in Minted(charges)
               PROVE  /\ charges'[c].refunded <= charges'[c].amount
                      /\ charges'[c].refunded = RefundedBefore(c) + SumOf(Back(c))'
    BY <1>2 DEF RefundsCounted, RefundedBefore
  <2>1. charges'[c].refunded = charges[c].refunded /\ charges'[c].amount = charges[c].amount
    BY <1>2 DEF RowsKept
  <2> QED BY <1>3, <2>1 DEF RefundsCounted
<1>5. ImportsKnown'
  <2>1. \A row \in ImportRows : row.id \in ChargeId
    BY ImportAssumption, LedgerAssumption
  <2> QED BY <2>1 DEF ImportsKnown, RowsKept
<1> QED BY <1>4, <1>5

(* A charge just opened has nothing returned.                               *)
LEMMA OpenedCounted ==
  ASSUME LInv, ProviderInv', ChargeOpened
  PROVE  RefundsCounted' /\ ImportsKnown'
<1> USE DEF LInv
<1>1. ProviderTypeOK /\ ProviderTypeOK'
  BY DEF ProviderInv
<1>2. PICK c \in ChargeId \ SeedId :
        /\ charges[c] = Unused /\ charges'[c] \in Charge
        /\ charges'[c].status = "processing" /\ charges'[c].refunded = 0
        /\ \A x \in ChargeId : x # c => charges'[x] = charges[x]
        /\ refunds' = refunds
  BY DEF ChargeOpened
<1>3. Minted(charges') = Minted(charges) \cup {c} /\ Minted(charges) \subseteq ChargeId \ {c}
  BY <1>1, <1>2, NotARow DEF Minted, ProviderTypeOK
<1>4. \A x : SumOf(Back(x))' = SumOf(Back(x))
  BY <1>2 DEF SumOf, Back, Minted
<1>5. RefundedBefore(c) = 0 /\ SumOf(Back(c)) = 0
  BY <1>2, ImportAssumption, NothingBack DEF RefundedBefore
<1>6. 0 <= charges'[c].amount
  <2>1. charges'[c].amount \in Amounts
    BY <1>2, Zenon DEF Charge
  <2>2. \A n \in Amounts : 0 <= n
    BY LedgerAssumption
  <2> QED BY <2>1, <2>2, Zenon
<1>7. RefundsCounted'
  <2> SUFFICES ASSUME NEW x \in Minted(charges) \cup {c}
               PROVE  /\ charges'[x].refunded <= charges'[x].amount
                      /\ charges'[x].refunded = RefundedBefore(x) + SumOf(Back(x))'
    BY <1>3 DEF RefundsCounted, RefundedBefore
  <2>1. CASE x = c
    BY <1>2, <1>4, <1>5, <1>6, <2>1
  <2>2. CASE x \in Minted(charges)
    <3>1. charges'[x] = charges[x]
      BY <1>2, <1>3, <2>2
    <3> QED BY <1>4, <2>2, <3>1 DEF RefundsCounted
  <2> QED BY <2>1, <2>2
<1>8. ImportsKnown'
  <2>1. \A row \in ImportRows : row.id \in ChargeId /\ row.id # c
    <3>1. \A row \in ImportRows : row.id \in SeedId
      BY ImportAssumption, Zenon
    <3> QED BY <3>1, LedgerAssumption
  <2> QED BY <1>2, <2>1 DEF ImportsKnown
<1> QED BY <1>7, <1>8

(* A new refund counts against its own charge, within what is left.         *)
LEMMA RefundCounted ==
  ASSUME LInv, ProviderInv', RefundMade
  PROVE  RefundsCounted' /\ ImportsKnown'
<1> USE DEF LInv
<1>1. ProviderTypeOK /\ ProviderTypeOK'
  BY DEF ProviderInv
<1>2. PICK c \in ChargeId, d \in RefundId, n \in Amounts :
        /\ charges[c] # Unused /\ charges[c].status = "succeeded" /\ ~Exceeds(c, n)
        /\ charges'[c] \in Charge /\ charges'[c].refunded = charges[c].refunded + n
        /\ charges'[c].key = charges[c].key /\ charges'[c].amount = charges[c].amount
        /\ \A x \in ChargeId : x # c => charges'[x] = charges[x]
        /\ refunds[d] = Unused /\ refunds'[d] # Unused
        /\ refunds'[d].charge = c /\ refunds'[d].amount = n
        /\ \A x \in RefundId : x # d => refunds'[x] = refunds[x]
  BY DEF RefundMade
<1>3. n \in Nat
  BY LedgerAssumption
<1>4. /\ charges'[c].refunded = charges[c].refunded + n
      /\ charges'[c].key = charges[c].key /\ charges'[c].amount = charges[c].amount
      /\ charges'[c] \in Charge /\ \A x \in ChargeId : x # c => charges'[x] = charges[x]
  BY <1>2
<1>5. Minted(charges') = Minted(charges) /\ Minted(charges) \subseteq ChargeId
  BY <1>1, <1>2, <1>4, NotARow DEF Minted, ProviderTypeOK
<1>6. Minted(refunds') = Minted(refunds) \cup {d} /\ Minted(refunds) \subseteq RefundId \ {d}
  BY <1>1, <1>2 DEF Minted, ProviderTypeOK
<1>7. SumOf(Back(c))' = SumOf(Back(c)) + n
  <2>1. Back(c)' = Back(c) \cup {d} /\ d \notin Back(c)
    BY <1>2, <1>6 DEF Back
  <2> DEFINE f == AmountsOf(refunds)
             g == AmountsOf(refunds')
  <2>2. refunds \in [RefundId -> Refund \cup {Unused}] /\ refunds' \in [RefundId -> Refund \cup {Unused}]
    BY <1>1 DEF ProviderTypeOK
  <2>3. Back(c) \in SUBSET Minted(refunds) /\ Back(c)' \in SUBSET Minted(refunds')
    BY DEF Back
  <2>4. /\ IsFiniteSet(Back(c)) /\ Back(c) \subseteq RefundId /\ \A i \in Back(c) : f[i] \in Nat
        /\ SumOf(Back(c)) = SumOver(f, Back(c))
    BY <2>2, <2>3, SumsOf DEF SumOf
  <2>5. SumOf(Back(c))' = SumOver(g, Back(c)')
    BY <2>2, <2>3, SumsOf DEF SumOf
  <2>6. g[d] = n /\ \A i \in Back(c) : f[i] \in Nat /\ g[i] = f[i]
    BY <1>2, <2>1, <2>4 DEF AmountsOf
  <2> HIDE DEF f, g
  <2>7. SumOver(g, Back(c) \cup {d}) = SumOver(f, Back(c)) + g[d]
    BY <1>3, <2>1, <2>4, <2>6, SumAdded
  <2> QED BY <2>1, <2>4, <2>5, <2>6, <2>7
<1>8. ASSUME NEW x \in Minted(charges), x # c PROVE SumOf(Back(x))' = SumOf(Back(x))
  <2>1. Back(x)' = Back(x)
    BY <1>2, <1>6, <1>8 DEF Back
  <2>2. \A i \in Back(x) : refunds'[i].amount = refunds[i].amount
    BY <1>2, <1>6 DEF Back
  <2> QED BY <1>1, <2>1, <2>2, CountsSame
<1>9. RefundsCounted'
  <2> SUFFICES ASSUME NEW x \in Minted(charges)
               PROVE  /\ charges'[x].refunded <= charges'[x].amount
                      /\ charges'[x].refunded = RefundedBefore(x) + SumOf(Back(x))'
    BY <1>5 DEF RefundsCounted, RefundedBefore
  <2>1. charges[x].refunded <= charges[x].amount /\ charges[x].refunded = RefundedBefore(x) + SumOf(Back(x))
    BY DEF RefundsCounted
  <2>2. CASE x = c
    <3>1. charges[c].refunded \in Nat /\ charges[c].amount \in Nat
      <4>1. charges[c] \in Charge
        BY <1>1, <1>2 DEF ProviderTypeOK
      <4> QED BY <4>1, LedgerAssumption DEF Charge
    <3>2. charges[c].refunded + n <= charges[c].amount
      BY <1>2, <1>3, <3>1 DEF Exceeds
    <3>3. SumOf(Back(c)) \in Nat /\ RefundedBefore(c) \in Nat
      <4>1. SumOf(Back(c)) \in Nat
        <5>1. refunds \in [RefundId -> Refund \cup {Unused}] /\ Back(c) \in SUBSET Minted(refunds)
          BY <1>1 DEF ProviderTypeOK, Back
        <5> QED BY <5>1, SumsOf DEF SumOf
      <4>2. RefundedBefore(c) \in Nat
        BY ImportAssumption DEF RefundedBefore
      <4> QED BY <4>1, <4>2
    <3> QED BY <1>3, <1>4, <1>7, <2>1, <2>2, <3>2, <3>3
  <2>3. CASE x # c
    BY <1>4, <1>5, <1>8, <2>1, <2>3
  <2> QED BY <2>2, <2>3
<1>10. ImportsKnown'
  <2>1. \A row \in ImportRows : row.id \in ChargeId
    BY ImportAssumption, LedgerAssumption
  <2> QED BY <1>2, <1>4, <2>1 DEF ImportsKnown
<1> QED BY <1>9, <1>10

(* An imported charge comes with what was returned of it before the import. *)
LEMMA ImportCounted ==
  ASSUME LInv, ProviderInv', ChargesImported
  PROVE  RefundsCounted' /\ ImportsKnown'
<1> USE DEF LInv
<1>1. ProviderTypeOK /\ ProviderTypeOK'
  BY DEF ProviderInv
<1>2. PICK batch \in SUBSET ImportRows :
        charges' = WithCharges(batch) /\ refunds' = refunds
  BY DEF ChargesImported
<1>3. /\ \A row \in Missing(batch) :
           /\ row.id \in ChargeId /\ charges[row.id] = Unused /\ AsCharge(row) \in Charge
           /\ charges'[row.id] = AsCharge(row)
      /\ \A c \in ChargeId : (\A row \in Missing(batch) : row.id # c) => charges'[c] = charges[c]
  BY <1>2, ChargesWith
<1>4. \A c \in Minted(charges') : \/ c \in Minted(charges) /\ charges'[c] = charges[c]
                                  \/ \E row \in Missing(batch) : row.id = c /\ charges'[c] = AsCharge(row)
  BY <1>1, <1>3 DEF Minted, ProviderTypeOK
<1>5. \A x : SumOf(Back(x))' = SumOf(Back(x))
  BY <1>2 DEF SumOf, Back, Minted
<1>6. ASSUME NEW row \in ImportRows PROVE RefundedBefore(row.id) = row.refunded
  <2>1. (CHOOSE other \in ImportRows : other.id = row.id) = row
    BY ImportAssumption
  <2> QED BY <2>1 DEF RefundedBefore
<1>7. RefundsCounted'
  <2> SUFFICES ASSUME NEW x \in Minted(charges')
               PROVE  /\ charges'[x].refunded <= charges'[x].amount
                      /\ charges'[x].refunded = RefundedBefore(x) + SumOf(Back(x))'
    BY DEF RefundsCounted, RefundedBefore
  <2>1. CASE x \in Minted(charges) /\ charges'[x] = charges[x]
    BY <1>5, <2>1 DEF RefundsCounted
  <2>2. ASSUME NEW row \in Missing(batch), row.id = x, charges'[x] = AsCharge(row)
        PROVE  /\ charges'[x].refunded <= charges'[x].amount
               /\ charges'[x].refunded = RefundedBefore(x) + SumOf(Back(x))'
    <3>1. row \in ImportRows /\ row.refunded <= row.amount /\ row.refunded \in Nat
      BY ImportAssumption DEF Missing
    <3>2. SumOf(Back(x))' = 0
      BY <1>3, <1>5, <2>2, NothingBack
    <3>3. charges'[x].refunded = row.refunded /\ charges'[x].amount = row.amount
      BY <2>2, Imported
    <3>4. RefundedBefore(x) = row.refunded
      BY <1>6, <2>2, <3>1
    <3> QED BY <3>1, <3>2, <3>3, <3>4
  <2> QED BY <1>4, <2>1, <2>2
<1>8. ImportsKnown'
  <2> SUFFICES ASSUME NEW row \in ImportRows, charges'[row.id] # Unused
               PROVE  charges'[row.id].key = row.key
    BY DEF ImportsKnown
  <2>1. row.id \in ChargeId
    BY ImportAssumption, LedgerAssumption
  <2>2. row.id \in Minted(charges')
    BY <1>1, <2>1 DEF Minted, ProviderTypeOK
  <2>3. CASE row.id \in Minted(charges) /\ charges'[row.id] = charges[row.id]
    BY <2>3 DEF ImportsKnown
  <2>4. ASSUME NEW other \in Missing(batch), other.id = row.id, charges'[row.id] = AsCharge(other)
        PROVE  charges'[row.id].key = row.key
    <3>1. other = row
      BY <2>4, ImportAssumption DEF Missing
    <3> QED BY <2>4, <3>1, Imported
  <2> QED BY <1>4, <2>2, <2>3, <2>4
<1> QED BY <1>7, <1>8

(* A ledger that forgot everything has nothing to count.                    *)
LEMMA EmptiedCounted ==
  ASSUME LInv, Emptied
  PROVE  RefundsCounted' /\ ImportsKnown'
<1>1. Minted(charges') = {}
  BY DEF Emptied, Minted
<1>2. \A row \in ImportRows : row.id \in ChargeId
  BY ImportAssumption, LedgerAssumption
<1>3. \A row \in ImportRows : charges'[row.id] = Unused
  BY <1>2 DEF Emptied
<1> QED BY <1>1, <1>3 DEF RefundsCounted, ImportsKnown

-----------------------------------------------------------------------------
(* The ledger in memory comes up empty. *)
LEMMA MemoryRestartKept ==
  ASSUME ProviderInv, MemoryRestart
  PROVE  ProviderInv'
<1>1. /\ http' = [r \in Request |-> HungUp(r)] /\ wire' = NoWebhooks
      /\ charges' = [c \in ChargeId |-> Unused] /\ refunds' = [d \in RefundId |-> Unused]
      /\ chargeClaim' = [k \in ChargeKey |-> Unclaimed]
      /\ refundClaim' = [k \in RefundKey |-> NoRefund]
  BY DEF MemoryRestart
<1>2. Minted(charges') = {} /\ Minted(refunds') = {}
  BY <1>1 DEF Minted
<1>3. Unclaimed \in [charge : ChargeId \cup {NONE}, body : Body \cup {NoBody},
                     outcome : {"accepted", "failed_500", "none"}] /\ Unclaimed.charge = NONE
  BY DEF Unclaimed
<1>4. NoRefund \in [refund : RefundId \cup {NONE}, body : Body \cup {NoBody},
                    row : {"none", "void", "refund"}]
      /\ NoRefund.refund = NONE /\ NoRefund.row = "none"
  BY DEF NoRefund
<1>5. ProviderTypeOK'
  BY <1>1, <1>3, <1>4, AllHungUp, WireEmptied DEF ProviderTypeOK
<1>6. KeysUnique' /\ OutcomesFinal' /\ RefundsBacked'
  BY <1>2 DEF KeysUnique, OutcomesFinal, RefundsBacked
<1>7. ClaimsBacked'
  BY <1>1, <1>3 DEF ClaimsBacked
<1>8. RefundClaimsBacked'
  BY <1>1, <1>4 DEF RefundClaimsBacked
<1> QED BY <1>1, <1>5, <1>6, <1>7, <1>8, AllHungUp DEF ProviderInv

(* The claims of an import name its charges, which are there. *)
LEMMA ImportedClaimsKept ==
  ASSUME ProviderInv, NEW batch \in SUBSET ImportRows,
         \A row \in batch : chargeClaim[row.key].charge = NONE,
         \A row \in batch : charges'[row.id] # Unused /\ charges'[row.id].key = row.key,
         \A c \in ChargeId : charges[c] # Unused => charges'[c] = charges[c],
         charges' \in [ChargeId -> Charge \cup {Unused}],
         KeysUnique', OutcomesFinal', RefundsBacked',
         chargeClaim' = WithClaims(batch), UNCHANGED <<http, refunds, refundClaim, wire>>
  PROVE  ProviderInv' /\ ChargeClaimsStay
<1> USE DEF ProviderInv
<1>1. /\ chargeClaim' \in [ChargeKey -> [charge : ChargeId \cup {NONE}, body : Body \cup {NoBody},
                                         outcome : {"accepted", "failed_500", "none"}]]
      /\ \A k \in ChargeKey :
           \/ (\A row \in batch : row.key # k) /\ chargeClaim'[k] = chargeClaim[k]
           \/ \E row \in batch : row.key = k /\ chargeClaim'[k].charge = row.id
  BY ClaimsWith
<1>2. ChargeClaimsStay
  BY <1>1 DEF ChargeClaimsStay
<1>3. ClaimsStay
  BY <1>2 DEF ChargeClaimsStay, ClaimsStay
<1>4. ProviderTypeOK'
  BY <1>1 DEF ProviderTypeOK
<1>5. RequestsInOrder'
  BY <1>3, OthersInOrder DEF RequestsInOrder
<1>6. ClaimsBacked'
  <2> SUFFICES ASSUME NEW k \in ChargeKey, chargeClaim'[k].charge # NONE
               PROVE  /\ charges'[chargeClaim'[k].charge] # Unused
                      /\ charges'[chargeClaim'[k].charge].key = k
    BY DEF ClaimsBacked
  <2>1. CASE chargeClaim'[k] = chargeClaim[k]
    <3>1. chargeClaim[k].charge \in ChargeId /\ charges[chargeClaim[k].charge] # Unused
          /\ charges[chargeClaim[k].charge].key = k
      BY <2>1 DEF ClaimsBacked, ProviderTypeOK
    <3> QED BY <2>1, <3>1
  <2>2. ASSUME NEW row \in batch, row.key = k, chargeClaim'[k].charge = row.id
        PROVE  /\ charges'[chargeClaim'[k].charge] # Unused
               /\ charges'[chargeClaim'[k].charge].key = k
    BY <2>2
  <2> QED BY <1>1, <2>1, <2>2
<1>7. RefundClaimsBacked'
  BY DEF RefundClaimsBacked
<1> QED BY <1>2, <1>4, <1>5, <1>6, <1>7

(* The import's second statement: the claims, where there is none.          *)
LEMMA ImportClaimsKept ==
  ASSUME LInv, ImportClaims
  PROVE  ProviderInv' /\ ChargeClaimsStay
<1> USE DEF LInv
<1> DEFINE batch == {row \in importing : chargeClaim[row.key].charge = NONE}
<1>1. batch \in SUBSET ImportRows /\ \A row \in batch : chargeClaim[row.key].charge = NONE
  OBVIOUS
<1>2. chargeClaim' = WithClaims(batch) /\ UNCHANGED <<http, charges, refunds, refundClaim, wire>>
  BY DEF ImportClaims
<1>3. \A row \in batch : charges[row.id] # Unused /\ charges[row.id].key = row.key
  BY DEF ImportsStaged, ImportsKnown
<1>4. /\ charges' \in [ChargeId -> Charge \cup {Unused}]
      /\ KeysUnique' /\ OutcomesFinal' /\ RefundsBacked'
  BY <1>2 DEF ProviderInv, ProviderTypeOK, KeysUnique, OutcomesFinal, RefundsBacked, Minted
<1> HIDE DEF batch
<1> QED BY <1>1, <1>2, <1>3, <1>4, ImportedClaimsKept

(* The import's first statement: the charges of the batch that are missing. *)
LEMMA ImportChargesKept ==
  ASSUME LInv, NEW batch \in SUBSET ImportRows, ImportCharges(batch)
  PROVE  ProviderInv' /\ ChargesImported /\ ImportsStaged'
<1> USE DEF LInv
<1>1. /\ \A row \in Missing(batch) : ~KeyTaken(row.key)
      /\ charges' = WithCharges(batch) /\ importing' = batch
      /\ UNCHANGED <<http, refunds, chargeClaim, refundClaim, wire>>
  BY DEF ImportCharges
<1>2. /\ charges' \in [ChargeId -> Charge \cup {Unused}]
      /\ \A c \in ChargeId : charges[c] # Unused => charges'[c] = charges[c]
      /\ \A row \in batch : charges'[row.id] # Unused
      /\ KeysUnique' /\ OutcomesFinal' /\ RefundsBacked' /\ RefundClaimsBacked'
  BY <1>1, ImportKeepsTables
<1>3. ProviderTypeOK'
  BY <1>1, <1>2 DEF ProviderInv, ProviderTypeOK
<1>4. RequestsInOrder'
  BY <1>1, OthersInOrder DEF RequestsInOrder, ClaimsStay
<1>5. ClaimsBacked'
  <2>1. \A k \in ChargeKey : chargeClaim[k].charge # NONE => chargeClaim[k].charge \in ChargeId
    BY DEF ProviderInv, ProviderTypeOK
  <2> QED BY <1>1, <1>2, <2>1 DEF ProviderInv, ClaimsBacked
<1> QED BY <1>1, <1>2, <1>3, <1>4, <1>5 DEF ProviderInv, ChargesImported, ImportsStaged

(* The import of the memory ledger, in one step.                            *)
LEMMA MemoryImportKept ==
  ASSUME LInv, NEW batch \in SUBSET ImportRows, MemoryImport(batch)
  PROVE  ProviderInv' /\ ChargesImported /\ ImportsStaged' /\ ChargeClaimsStay
<1> USE DEF LInv
<1>1. /\ \A row \in Missing(batch) : ~KeyTaken(row.key)
      /\ charges' = WithCharges(batch) /\ chargeClaim' = WithClaims(Missing(batch))
      /\ UNCHANGED <<http, refunds, refundClaim, wire, importing>>
  BY DEF MemoryImport
<1>2. /\ charges' \in [ChargeId -> Charge \cup {Unused}]
      /\ \A c \in ChargeId : charges[c] # Unused => charges'[c] = charges[c]
      /\ \A row \in batch : charges'[row.id] # Unused
      /\ KeysUnique' /\ OutcomesFinal' /\ RefundsBacked'
  BY <1>1, ImportKeepsTables
<1>3. Missing(batch) \in SUBSET ImportRows
  BY DEF Missing
<1>4. \A row \in Missing(batch) : charges'[row.id] # Unused /\ charges'[row.id].key = row.key
  <2>1. \A row \in Missing(batch) : charges'[row.id] = AsCharge(row)
    BY <1>1, ChargesWith
  <2> QED BY <1>2, <2>1, Imported DEF Missing
<1>5. \A row \in Missing(batch) : chargeClaim[row.key].charge = NONE
  <2> SUFFICES ASSUME NEW row \in Missing(batch), chargeClaim[row.key].charge # NONE PROVE FALSE
    OBVIOUS
  <2>1. row.key \in ChargeKey
    BY <1>3, ImportAssumption, Zenon
  <2> DEFINE c == chargeClaim[row.key].charge
  <2>2. c \in ChargeId /\ charges[c] # Unused /\ charges[c].key = row.key
    BY <2>1 DEF ProviderInv, ClaimsBacked, ProviderTypeOK
  <2>3. c \in Minted(charges)
    BY <2>2 DEF ProviderInv, ProviderTypeOK, Minted
  <2>4. KeyTaken(row.key)
    BY <2>2, <2>3 DEF KeyTaken
  <2> QED BY <1>1, <2>4
<1>6. ProviderInv' /\ ChargeClaimsStay
  BY <1>1, <1>2, <1>3, <1>4, <1>5, ImportedClaimsKept
<1>7. ImportsStaged'
  <2>1. \A row \in importing : row.id \in ChargeId
    BY ImportAssumption, LedgerAssumption
  <2> QED BY <1>1, <1>2, <2>1 DEF ImportsStaged
<1> QED BY <1>1, <1>6, <1>7 DEF ChargesImported

-----------------------------------------------------------------------------
(* A step that moves money as a handler may leaves imported charges there. *)
LEMMA StagedKept ==
  ASSUME LInv, RowsKept \/ ChargeOpened \/ RefundMade, importing' = importing
  PROVE  ImportsStaged'
<1>1. \A row \in importing : row.id \in ChargeId
  BY ImportAssumption, LedgerAssumption DEF LInv
<1>2. \A c \in ChargeId : charges[c] # Unused => charges'[c] # Unused
  <2>1. CASE RowsKept
    BY <2>1 DEF RowsKept
  <2>2. CASE ChargeOpened
    BY <2>2 DEF ChargeOpened
  <2>3. CASE RefundMade
    BY <2>3, NotARow DEF RefundMade
  <2> QED BY <2>1, <2>2, <2>3
<1> QED BY <1>1, <1>2 DEF LInv, ImportsStaged

(* Answers stand when claims do and the slots are as they were. *)
LEMMA AnswersKept ==
  ASSUME LInv, ChargeClaimsStay, store' = store,
         \A r \in Request : http'[r] = http[r] \/ Truthful(r)'
  PROVE  AnswersStand'
<1> SUFFICES ASSUME NEW r \in Request, store = "postgres", http'[r].at = "answered",
                    http'[r].op = "charge", http'[r].code = 202
             PROVE  http'[r].id = chargeClaim'[http'[r].key].charge /\ http'[r].id # NONE
  BY DEF AnswersStand
<1>1. CASE Truthful(r)'
  BY <1>1 DEF Truthful
<1>2. CASE http'[r] = http[r]
  <2>1. http[r].id = chargeClaim[http[r].key].charge /\ http[r].id # NONE
    BY <1>2 DEF LInv, AnswersStand
  <2>2. http[r].key \in ChargeKey
    BY <1>2, NotARow DEF LInv, ProviderInv, RequestsInOrder, InOrder, ChargeRequest, RefundRequest
  <2> QED BY <1>2, <2>1, <2>2 DEF ChargeClaimsStay
<1> QED BY <1>1, <1>2

MoneyStep == RowsKept \/ ChargeOpened \/ RefundMade \/ ChargesImported \/ Emptied

(* Whatever moves money leaves every charge with no more returned than it   *)
(* captured.                                                                *)
LEMMA StepCounted ==
  ASSUME LInv, ProviderInv', MoneyStep
  PROVE  RefundsCounted' /\ ImportsKnown'
  BY KeptCounted, OpenedCounted, RefundCounted, ImportCounted, EmptiedCounted DEF MoneyStep

(* Every step moves money in one of those ways, and keeps the invariant. *)
LEMMA LedgerStep ==
  ASSUME LInv, [LedgersNext]_ledgers
  PROVE  LInv' /\ MoneyStep /\ store' = store
<1> USE DEF LInv
<1>1. ASSUME ProviderInv', MoneyStep, store' = store, importing' \subseteq ImportRows,
             ImportsStaged', AnswersStand'
      PROVE  LInv'
  BY <1>1, StepCounted
<1>2. ASSUME NEW r \in Request, HandleWith(r) PROVE LInv' /\ MoneyStep /\ store' = store
  <2>1. ProviderInv' /\ (RowsKept \/ ChargeOpened \/ RefundMade) /\ HandlerStep(r)
    BY <1>2, Handlers
  <2>2. UNCHANGED <<store, importing>>
    BY <1>2 DEF HandleWith
  <2>3. ImportsStaged'
    BY <2>1, <2>2, StagedKept
  <2>4. AnswersStand'
    BY <2>1, <2>2, AnswersKept DEF HandlerStep
  <2> QED BY <1>1, <2>1, <2>2, <2>3, <2>4 DEF MoneyStep
<1>3. ASSUME NEW r \in Request, NEW q \in Call \cup {Idle},
             q = Idle \/ (q.at = "posted" /\ (ChargeRequest(q) \/ RefundRequest(q))),
             http' = [http EXCEPT ![r] = q],
             UNCHANGED <<charges, refunds, chargeClaim, refundClaim, wire, store, importing>>
      PROVE  LInv' /\ MoneyStep /\ store' = store
  <2>1. ProviderInv'
    BY <1>3, SlotKept
  <2>2. RowsKept /\ ChargeClaimsStay
    BY <1>3 DEF RowsKept, ChargeClaimsStay
  <2>3. ImportsStaged'
    BY <1>3, <2>2, StagedKept
  <2>4. AnswersStand'
    <3>1. http'[r] = q /\ \A x \in Request : x # r => http'[x] = http[x]
      BY <1>3 DEF ProviderInv, ProviderTypeOK
    <3>2. Truthful(r)'
      BY <1>3, <3>1, NotARow DEF Truthful
    <3> QED BY <1>3, <2>2, <3>1, <3>2, AnswersKept
  <2> QED BY <1>1, <1>3, <2>1, <2>2, <2>3, <2>4 DEF MoneyStep
<1>4. ASSUME NEW r \in Request, NEW k \in ChargeKey, NEW ref \in Reference, NEW amount \in Amounts,
             PostCharge(r, k, ref, amount)
      PROVE  LInv' /\ MoneyStep /\ store' = store
  BY <1>3, <1>4, PostedCalls DEF PostCharge
<1>5. ASSUME NEW r \in Request, NEW k \in RefundKey, NEW c \in ChargeId, NEW amount \in Amounts,
             PostRefund(r, k, c, amount)
      PROVE  LInv' /\ MoneyStep /\ store' = store
  BY <1>3, <1>5, PostedCalls DEF PostRefund
<1>6. ASSUME NEW r \in Request, Collect(r) PROVE LInv' /\ MoneyStep /\ store' = store
  BY <1>3, <1>6 DEF Collect
<1>7. ASSUME NEW r \in Request, Drop(r), UNCHANGED <<store, importing>>
      PROVE  LInv' /\ MoneyStep /\ store' = store
  <2>1. ProviderInv'
    BY <1>7, DropKept
  <2>2. RowsKept
    BY <1>7 DEF RowsKept, Drop
  <2>3. ImportsStaged'
    BY <1>7, <2>2, StagedKept
  <2>4. HandlerStep(r)
    <3>1. http[r] # Idle /\ 503 \in Codes /\ NONE \in Nat
      BY <1>7, NotARow DEF Drop, Codes, NONE
    <3> QED BY <1>7, <3>1, AnswersOther DEF Drop
  <2>5. AnswersStand'
    BY <1>7, <2>4, AnswersKept DEF HandlerStep
  <2> QED BY <1>1, <1>7, <2>1, <2>2, <2>3, <2>5 DEF MoneyStep
<1>8. ASSUME NEW c \in ChargeId, NEW e \in Events, Send(c, e), UNCHANGED <<store, importing>>
      PROVE  LInv' /\ MoneyStep /\ store' = store
  <2>1. ProviderInv'
    BY <1>8, SendKept
  <2>2. RowsKept /\ ChargeClaimsStay
    BY <1>8 DEF RowsKept, Send, ChargeClaimsStay
  <2>3. ImportsStaged'
    BY <1>8, <2>2, StagedKept
  <2>4. AnswersStand'
    BY <1>8, <2>2, AnswersKept DEF Send
  <2> QED BY <1>1, <1>8, <2>1, <2>2, <2>3, <2>4 DEF MoneyStep
<1>9. ASSUME NEW batch \in SUBSET ImportRows, ImportCharges(batch)
      PROVE  LInv' /\ MoneyStep /\ store' = store
  <2>1. ProviderInv' /\ ChargesImported /\ ImportsStaged'
    BY <1>9, ImportChargesKept
  <2>2. /\ store' = store /\ importing' = batch /\ http' = http /\ chargeClaim' = chargeClaim
    BY <1>9 DEF ImportCharges
  <2>3. AnswersStand'
    BY <2>2, AnswersKept DEF ChargeClaimsStay
  <2> QED BY <1>1, <2>1, <2>2, <2>3 DEF MoneyStep
<1>10. ASSUME NEW batch \in SUBSET ImportRows, MemoryImport(batch)
       PROVE  LInv' /\ MoneyStep /\ store' = store
  <2>1. ProviderInv' /\ ChargesImported /\ ImportsStaged' /\ ChargeClaimsStay
    BY <1>10, MemoryImportKept
  <2>2. store' = store /\ importing' = importing /\ http' = http
    BY <1>10 DEF MemoryImport
  <2>3. AnswersStand'
    BY <2>1, <2>2, AnswersKept
  <2> QED BY <1>1, <2>1, <2>2, <2>3 DEF MoneyStep
<1>11. ASSUME ImportClaims PROVE LInv' /\ MoneyStep /\ store' = store
  <2>1. ProviderInv' /\ ChargeClaimsStay
    BY <1>11, ImportClaimsKept
  <2>2. store' = store /\ importing' = {} /\ http' = http /\ charges' = charges /\ refunds' = refunds
    BY <1>11 DEF ImportClaims
  <2>3. RowsKept /\ ImportsStaged'
    BY <2>2 DEF RowsKept, ImportsStaged
  <2>4. AnswersStand'
    BY <2>1, <2>2, AnswersKept
  <2> QED BY <1>1, <2>1, <2>2, <2>3, <2>4 DEF MoneyStep
<1>12. ASSUME http' = [r \in Request |-> HungUp(r)], NEW r \in Request
       PROVE  http'[r] = http[r] \/ Truthful(r)'
  <2>1. http'[r] = HungUp(r) /\ http[r] \in Call \cup {Idle}
    BY <1>12 DEF ProviderInv, ProviderTypeOK
  <2>2. CASE http[r].at \in {"posted", "recovering", "opened"}
    <3>1. http[r] \in Call
      BY <2>1, <2>2, NotARow
    <3>2. HungUp(r).code = 503
      BY <2>2, <3>1 DEF HungUp, Call
    <3> QED BY <2>1, <3>2 DEF Truthful
  <2> QED BY <2>1, <2>2 DEF HungUp
<1>13. ASSUME PostgresRestart PROVE LInv' /\ MoneyStep /\ store' = store
  <2>1. ProviderInv'
    BY <1>13, RestartKept DEF PostgresRestart
  <2>2. /\ store' = store /\ importing' = {} /\ http' = [r \in Request |-> HungUp(r)]
        /\ UNCHANGED <<charges, refunds, chargeClaim>>
    BY <1>13 DEF PostgresRestart, Restart
  <2>3. RowsKept /\ ImportsStaged' /\ ChargeClaimsStay
    BY <2>2 DEF RowsKept, ImportsStaged, ChargeClaimsStay
  <2>4. AnswersStand'
    BY <1>12, <2>2, <2>3, AnswersKept
  <2> QED BY <1>1, <2>1, <2>2, <2>3, <2>4 DEF MoneyStep
<1>14. ASSUME MemoryRestart PROVE LInv' /\ MoneyStep /\ store' = store
  <2>1. ProviderInv'
    BY <1>14, MemoryRestartKept
  <2>2. Emptied /\ store' = store /\ importing' = {} /\ store = "memory"
    BY <1>14 DEF MemoryRestart, Emptied
  <2>3. ImportsStaged' /\ AnswersStand'
    BY <2>2 DEF ImportsStaged, AnswersStand
  <2> QED BY <1>1, <2>1, <2>2, <2>3 DEF MoneyStep
<1>15. ASSUME UNCHANGED ledgers PROVE LInv' /\ MoneyStep /\ store' = store
  <2>1. UNCHANGED <<http, charges, refunds, chargeClaim, refundClaim, wire, store, importing>>
    BY <1>15 DEF ledgers, provider
  <2>2. RowsKept /\ ChargeClaimsStay
    BY <2>1 DEF RowsKept, ChargeClaimsStay
  <2>3. ProviderInv'
    BY <2>1 DEF ProviderInv, ProviderTypeOK, RequestsInOrder, InOrder, KeysUnique, ClaimsBacked,
                RefundClaimsBacked, OutcomesFinal, RefundsBacked, Minted, ChargeRequest, RefundRequest
  <2>4. ImportsStaged' /\ AnswersStand'
    BY <2>1, <2>2, StagedKept, AnswersKept
  <2> QED BY <1>1, <2>1, <2>2, <2>3, <2>4 DEF MoneyStep
<1> QED BY <1>2, <1>4, <1>5, <1>6, <1>7, <1>8, <1>9, <1>10, <1>11, <1>13, <1>14, <1>15
        DEF LedgersNext

(* The invariant holds of the empty ledger. *)
LEMMA LedgersStart ==
  ASSUME LedgersInit
  PROVE  LInv
<1>1. \A r \in Request : http[r] = Idle
  BY DEF LedgersInit, ProviderInit
<1>2. ProviderInv
  BY <1>1, NotARow, LedgerEmpty DEF LedgersInit, ProviderInit
<1>3. Minted(charges) = {} /\ \A c \in ChargeId : charges[c] = Unused
  BY DEF LedgersInit, ProviderInit, Minted
<1>4. \A row \in ImportRows : row.id \in ChargeId
  BY ImportAssumption, LedgerAssumption
<1>5. ImportsKnown /\ RefundsCounted
  BY <1>3, <1>4 DEF ImportsKnown, RefundsCounted
<1>6. AnswersStand
  BY <1>1, NotARow DEF AnswersStand
<1>7. ImportsStaged /\ store \in Stores /\ importing \subseteq ImportRows
  BY DEF LedgersInit, ImportsStaged
<1> QED BY <1>2, <1>5, <1>6, <1>7 DEF LInv

(* The inductive invariant of the provider, whatever callers post, however   *)
(* requests interleave, whatever is imported and whenever it is restarted.   *)
THEOREM LedgersInvariant == LedgersSpec => []LInv
<1>1. LedgersInit => LInv
  BY LedgersStart
<1>2. LInv /\ [LedgersNext]_ledgers => LInv'
  BY LedgerStep
<1> QED BY <1>1, <1>2, PTL DEF LedgersSpec

(* Every table of the provider and every request under way has its type. *)
THEOREM LedgersTypeCorrect == LedgersSpec => []LedgersTypeOK
<1>1. LInv => LedgersTypeOK
  BY DEF LInv, ProviderInv, LedgersTypeOK
<1> QED BY <1>1, LedgersInvariant, PTL

(* A key stands for one charge, whatever was retried, imported or lost, and *)
(* a durable ledger answers every 202 with that charge.                     *)
THEOREM NobodyChargedTwice == LedgersSpec => []OneChargePerKey
<1>1. LInv => OneChargePerKey
  BY DEF LInv, ProviderInv, KeysUnique, ClaimsBacked, AnswersStand, OneChargePerKey
<1> QED BY <1>1, LedgersInvariant, PTL

(* Refunds of a charge, however they interleave and under whatever keys, add *)
(* up to refunded_minor and never exceed what was captured.                  *)
THEOREM RefundsWithinCharge == LedgersSpec => []NeverOverRefunded
<1>1. ASSUME LInv PROVE NeverOverRefunded
  <2> SUFFICES ASSUME NEW c \in Minted(charges)
               PROVE  /\ charges[c].refunded <= charges[c].amount
                      /\ charges[c].refunded = RefundedBefore(c) + SumOf(Back(c))
                      /\ Back(c) # {} => charges[c].status = "succeeded"
    BY DEF NeverOverRefunded, Back
  <2>1. Back(c) # {} => charges[c].status = "succeeded"
    BY <1>1 DEF LInv, ProviderInv, RefundsBacked, Back
  <2> QED BY <1>1, <2>1 DEF LInv, RefundsCounted
<1> QED BY <1>1, LedgersInvariant, PTL

(* What is announced of a charge is announced when its outcome comes into   *)
(* being: of all steps only materialiseCharge schedules such a webhook, and *)
(* only of a charge that had not come to life.                              *)
THEOREM OutcomesAnnouncedOnce == LedgersSpec => AnnouncedOnce
<1> DEFINE Outcomes == {"charge.succeeded", "charge.failed"}
           Once == \A c \in ChargeId : \A e \in Outcomes :
                     wire'[c][e] > wire[c][e] => ~charges[c].materialised
<1>1. ASSUME LInv, [LedgersNext]_ledgers PROVE Once
  <2>0. wire \in [ChargeId -> [Events -> Nat]] /\ Outcomes \subseteq Events
        /\ "refund.succeeded" \notin Outcomes
    BY <1>1 DEF LInv, ProviderInv, ProviderTypeOK, Events
  <2>1. CASE \A c \in ChargeId, e \in Events : wire'[c][e] <= wire[c][e]
    <3> SUFFICES ASSUME NEW c \in ChargeId, NEW e \in Outcomes, wire'[c][e] > wire[c][e] PROVE FALSE
      OBVIOUS
    <3>1. e \in Events /\ wire[c][e] \in Nat
      BY <2>0
    <3>2. wire'[c][e] <= wire[c][e]
      BY <2>1, <3>1
    <3>3. wire'[c][e] \in Nat
      BY <1>1, <3>1, LedgerStep DEF LInv, ProviderInv, ProviderTypeOK
    <3> HIDE DEF Outcomes
    <3> QED BY <3>1, <3>2, <3>3
  <2>2. CASE wire' = wire
    <3>1. \A c \in ChargeId, e \in Events : wire[c][e] <= wire[c][e]
      BY <2>0
    <3> QED BY <2>1, <2>2, <3>1
  <2>3. CASE wire' = NoWebhooks
    <3>1. \A c \in ChargeId, e \in Events : wire'[c][e] <= wire[c][e]
      BY <2>0, <2>3 DEF NoWebhooks
    <3> QED BY <2>1, <3>1
  <2>4. ASSUME NEW c \in ChargeId, NEW e \in Events, Send(c, e) PROVE Once
    BY <1>1, <2>1, <2>4, SendKept DEF LInv
  <2>5. ASSUME NEW r \in Request, MaterialiseCharge(r) PROVE Once
    <3> DEFINE c == http[r].id
    <3>1. CASE charges[c].materialised
      BY <2>2, <2>5, <3>1 DEF MaterialiseCharge
    <3>2. CASE ~charges[c].materialised
      <4>1. c \in ChargeId
        <5>1. http[r] # Idle /\ http[r] \in Call
          BY <1>1, <2>5, NotARow DEF MaterialiseCharge, LInv, ProviderInv, ProviderTypeOK
        <5>2. http[r].key \in ChargeKey /\ c = chargeClaim[http[r].key].charge /\ c # NONE
          BY <1>1, <2>5, <5>1 DEF MaterialiseCharge, LInv, ProviderInv, RequestsInOrder, InOrder,
                                  ChargeRequest, RefundRequest
        <5> QED BY <1>1, <5>2 DEF LInv, ProviderInv, ProviderTypeOK
      <4>2. \E e \in Events : Dispatch(c, e)
        BY <2>5, <3>2 DEF MaterialiseCharge, Events
      <4>3. \A x \in ChargeId, f \in Events : wire'[x][f] # wire[x][f] => x = c
        BY <1>1, <4>1, <4>2, Dispatching DEF LInv
      <4> SUFFICES ASSUME NEW x \in ChargeId, NEW f \in Outcomes, wire'[x][f] > wire[x][f]
                   PROVE  ~charges[x].materialised
        OBVIOUS
      <4>4. f \in Events /\ wire[x][f] \in Nat
        BY <2>0
      <4>5. wire'[x][f] # wire[x][f]
        BY <4>4
      <4> QED BY <3>2, <4>3, <4>4, <4>5
    <3> QED BY <3>1, <3>2
  <2>6. ASSUME NEW r \in Request, MaterialiseRefund(r) PROVE Once
    <3> DEFINE d == http[r].id
    <3>1. CASE refunds[d].materialised
      BY <2>2, <2>6, <3>1 DEF MaterialiseRefund
    <3>2. CASE ~refunds[d].materialised
      <4>1. refunds[d].charge \in ChargeId
        <5>1. http[r] # Idle /\ http[r] \in Call
          BY <1>1, <2>6, NotARow DEF MaterialiseRefund, LInv, ProviderInv, ProviderTypeOK
        <5>2. http[r].key \in RefundKey /\ d = refundClaim[http[r].key].refund /\ d # NONE
          BY <1>1, <2>6, <5>1 DEF MaterialiseRefund, LInv, ProviderInv, RequestsInOrder, InOrder,
                                  ChargeRequest, RefundRequest
        <5>3. refunds[d] \in Refund
          BY <1>1, <5>2 DEF LInv, ProviderInv, RefundClaimsBacked, ProviderTypeOK
        <5> QED BY <5>3 DEF Refund
      <4>2. Dispatch(refunds[d].charge, "refund.succeeded") /\ "refund.succeeded" \in Events
        BY <2>6, <3>2 DEF MaterialiseRefund, Events
      <4>3. \A x \in ChargeId, f \in Events : wire'[x][f] # wire[x][f] => f = "refund.succeeded"
        BY <1>1, <4>1, <4>2, Dispatching DEF LInv
      <4> SUFFICES ASSUME NEW x \in ChargeId, NEW f \in Outcomes, wire'[x][f] > wire[x][f]
                   PROVE  FALSE
        OBVIOUS
      <4>4. f \in Events /\ wire[x][f] \in Nat /\ f # "refund.succeeded"
        BY <2>0
      <4>5. wire'[x][f] # wire[x][f]
        BY <4>4
      <4> QED BY <4>3, <4>4, <4>5
    <3> QED BY <3>1, <3>2
  <2>7. \/ wire' = wire \/ wire' = NoWebhooks
        \/ \E c \in ChargeId, e \in Events : Send(c, e)
        \/ \E r \in Request : MaterialiseCharge(r) \/ MaterialiseRefund(r)
    <3>1. ASSUME NEW r \in Request, HandleWith(r)
          PROVE  wire' = wire \/ MaterialiseCharge(r) \/ MaterialiseRefund(r)
      BY <3>1 DEF HandleWith, Handle, HandleInMemory, MemoryOpenCharge, MemoryRecover,
                  MemoryMaterialise, MemoryOpenRefund, OpenCharge, RecoverCharge, OpenRefund
    <3>2. ASSUME UNCHANGED ledgers PROVE wire' = wire
      BY <3>2 DEF ledgers, provider
    <3> QED BY <1>1, <3>1, <3>2 DEF LedgersNext, PostCharge, PostRefund, Collect, Drop, ImportCharges,
               MemoryImport, ImportClaims, PostgresRestart, Restart, MemoryRestart
  <2> HIDE DEF Once
  <2> QED BY <2>2, <2>3, <2>4, <2>5, <2>6, <2>7
<1> QED BY <1>1, LedgersInvariant, PTL DEF LedgersSpec, AnnouncedOnce

-----------------------------------------------------------------------------
(* The refinement: what is captured, and returned, under a key. *)
Under(table, k) == {c \in Minted(table) : table[c].key = k /\ table[c].status = "succeeded"}
AmountUnder(table, k) == SumOver([c \in Under(table, k) |-> table[c].amount], Under(table, k))
RefundedUnder(table, k) == SumOver([c \in Under(table, k) |-> table[c].refunded], Under(table, k))

(* It is that of the one captured charge, or nothing. *)
LEMMA UnderKey ==
  ASSUME NEW table \in [ChargeId -> Charge \cup {Unused}], NEW k \in ChargeKey,
         \A c, d \in Minted(table) : table[c].key = table[d].key => c = d
  PROVE  /\ Under(table, k) = {} => AmountUnder(table, k) = 0 /\ RefundedUnder(table, k) = 0
         /\ \A c \in Under(table, k) :
              /\ c \in ChargeId /\ table[c] \in Charge
              /\ table[c].amount \in Nat /\ table[c].amount > 0 /\ table[c].refunded \in Nat
              /\ AmountUnder(table, k) = table[c].amount
              /\ RefundedUnder(table, k) = table[c].refunded
<1>1. ASSUME Under(table, k) = {} PROVE AmountUnder(table, k) = 0 /\ RefundedUnder(table, k) = 0
  BY <1>1, SumOfNone DEF AmountUnder, RefundedUnder
<1>2. ASSUME NEW c \in Under(table, k)
      PROVE  /\ c \in ChargeId /\ table[c] \in Charge
             /\ table[c].amount \in Nat /\ table[c].amount > 0 /\ table[c].refunded \in Nat
             /\ AmountUnder(table, k) = table[c].amount
             /\ RefundedUnder(table, k) = table[c].refunded
  <2>1. c \in ChargeId /\ table[c] \in Charge
    BY DEF Under, Minted
  <2>2. table[c].amount \in Amounts /\ table[c].refunded \in Nat
    BY <2>1, Zenon DEF Charge
  <2>3. table[c].amount \in Nat /\ table[c].amount > 0
    <3>1. \A n \in Amounts : n \in Nat /\ n > 0
      BY LedgerAssumption
    <3> QED BY <2>2, <3>1, Zenon
  <2>4. Under(table, k) = {c}
    BY DEF Under
  <2> DEFINE f == [x \in {c} |-> table[x].amount]
             g == [x \in {c} |-> table[x].refunded]
  <2>5. f[c] = table[c].amount /\ g[c] = table[c].refunded
    OBVIOUS
  <2> HIDE DEF f, g
  <2>6. SumOver(f, {c}) = table[c].amount /\ SumOver(g, {c}) = table[c].refunded
    BY <2>2, <2>3, <2>5, SumOfOne
  <2>7. AmountUnder(table, k) = table[c].amount /\ RefundedUnder(table, k) = table[c].refunded
    BY <2>4, <2>6 DEF AmountUnder, RefundedUnder, f, g
  <2> QED BY <2>1, <2>2, <2>3, <2>7
<1> QED BY <1>1, <1>2

(* The tables before and after a step are such tables. *)
LEMMA TablesOfKeys ==
  ASSUME LInv, LInv'
  PROVE  /\ charges \in [ChargeId -> Charge \cup {Unused}]
         /\ charges' \in [ChargeId -> Charge \cup {Unused}]
         /\ \A c, d \in Minted(charges) : charges[c].key = charges[d].key => c = d
         /\ \A c, d \in Minted(charges') : charges'[c].key = charges'[d].key => c = d
  BY DEF LInv, ProviderInv, ProviderTypeOK, KeysUnique

(* The refinement mapping, key by key, before and after a step.             *)
LEMMA MoneyByKey ==
  /\ Captured = [k \in ChargeKey |-> AmountUnder(charges, k)]
  /\ Returned = [k \in ChargeKey |-> RefundedUnder(charges, k)]
  /\ Captured' = [k \in ChargeKey |-> AmountUnder(charges', k)]
  /\ Returned' = [k \in ChargeKey |-> RefundedUnder(charges', k)]
  BY DEF Captured, Returned, AmountUnder, RefundedUnder, CapturedUnder, Under

(* A step that leaves captured charges as they are. *)
Grows ==
  \A c \in ChargeId : charges[c].status = "succeeded" =>
    /\ charges'[c] # Unused /\ charges'[c].status = "succeeded" /\ charges'[c].key = charges[c].key
    /\ charges'[c].amount = charges[c].amount /\ charges'[c].refunded = charges[c].refunded

(* Under these steps captured charges stay captured.                        *)
LEMMA GrowingSteps ==
  ASSUME LInv, LInv', RowsKept \/ ChargeOpened \/ ChargesImported
  PROVE  Grows
<1> SUFFICES ASSUME NEW c \in ChargeId, charges[c].status = "succeeded"
             PROVE  /\ charges'[c] # Unused /\ charges'[c].status = "succeeded"
                    /\ charges'[c].key = charges[c].key
                    /\ charges'[c].amount = charges[c].amount /\ charges'[c].refunded = charges[c].refunded
  BY DEF Grows
<1>1. charges[c] # Unused
  BY NotARow
<1>2. CASE RowsKept
  BY <1>1, <1>2 DEF RowsKept
<1>3. CASE ChargeOpened
  BY <1>1, <1>3 DEF ChargeOpened
<1>4. CASE ChargesImported
  <2>1. PICK batch \in SUBSET ImportRows : charges' = WithCharges(batch)
    BY <1>4 DEF ChargesImported
  <2>2. charges'[c] = charges[c]
    BY <1>1, <2>1, ChargesWith DEF LInv
  <2> QED BY <1>1, <2>2
<1> QED BY <1>2, <1>3, <1>4

(* Under each key it captures at most, and once. *)
LEMMA GrowingMoney ==
  ASSUME LInv, LInv', Grows
  PROVE  \E ks \in SUBSET ChargeKey : Promise!Capture(ks)
<1> USE DEF LInv
<1>1. ASSUME NEW k \in ChargeKey
      PROVE  \/ Captured'[k] = Captured[k] /\ Returned'[k] = Returned[k]
             \/ Captured[k] = 0 /\ Captured'[k] > 0 /\ Returned'[k] <= Captured'[k]
  <2>1. /\ Captured[k] = AmountUnder(charges, k) /\ Captured'[k] = AmountUnder(charges', k)
        /\ Returned[k] = RefundedUnder(charges, k) /\ Returned'[k] = RefundedUnder(charges', k)
    BY MoneyByKey
  <2>2. CASE Under(charges, k) = {} /\ Under(charges', k) = {}
    BY <2>1, <2>2, TablesOfKeys, UnderKey
  <2>3. ASSUME Under(charges, k) = {}, NEW c \in Under(charges', k)
        PROVE  Captured[k] = 0 /\ Captured'[k] > 0 /\ Returned'[k] <= Captured'[k]
    <3>1. AmountUnder(charges, k) = 0
      BY <2>3, TablesOfKeys, UnderKey
    <3>2. /\ charges'[c].amount > 0 /\ AmountUnder(charges', k) = charges'[c].amount
          /\ RefundedUnder(charges', k) = charges'[c].refunded
      BY TablesOfKeys, UnderKey
    <3>3. charges'[c].refunded <= charges'[c].amount
      BY DEF RefundsCounted, Under
    <3> QED BY <2>1, <3>1, <3>2, <3>3
  <2>4. ASSUME NEW c \in Under(charges, k)
        PROVE  Captured'[k] = Captured[k] /\ Returned'[k] = Returned[k]
    <3>1. c \in ChargeId /\ charges[c].status = "succeeded" /\ charges[c].key = k
          /\ AmountUnder(charges, k) = charges[c].amount /\ RefundedUnder(charges, k) = charges[c].refunded
      BY TablesOfKeys, UnderKey DEF Under
    <3>2. c \in Under(charges', k)
      BY <3>1, TablesOfKeys DEF Grows, Under, Minted
    <3>3. AmountUnder(charges', k) = charges'[c].amount /\ RefundedUnder(charges', k) = charges'[c].refunded
      BY <3>2, TablesOfKeys, UnderKey
    <3> QED BY <2>1, <3>1, <3>3 DEF Grows
  <2> QED BY <2>2, <2>3, <2>4
<1> DEFINE ks == {k \in ChargeKey : Captured[k] = 0 /\ Captured'[k] > 0 /\ Returned'[k] <= Captured'[k]}
<1>2. Promise!Capture(ks)
  BY <1>1 DEF Promise!Capture
<1> QED BY <1>2

(* A refund returns money under the key of its charge, within its amount. *)
LEMMA RefundMoney ==
  ASSUME LInv, LInv', RefundMade
  PROVE  \E k \in ChargeKey : Promise!Return(k)
<1> USE DEF LInv
<1>1. PICK c \in ChargeId, n \in Amounts :
        /\ charges[c] # Unused /\ charges[c].status = "succeeded"
        /\ charges'[c] \in Charge /\ charges'[c].refunded = charges[c].refunded + n
        /\ charges'[c].key = charges[c].key /\ charges'[c].amount = charges[c].amount
        /\ charges'[c].status = charges[c].status
        /\ \A x \in ChargeId : x # c => charges'[x] = charges[x]
  BY DEF RefundMade
<1> DEFINE k == charges[c].key
<1>2. n \in Nat /\ n > 0
  BY LedgerAssumption
<1>3. c \in Under(charges, k) /\ c \in Under(charges', k)
  BY <1>1, NotARow, TablesOfKeys DEF Under, Minted
<1>4. k \in ChargeKey
  <2>1. charges[c] \in Charge
    BY <1>1, TablesOfKeys
  <2> QED BY <2>1 DEF Charge
<1> HIDE DEF k
<1>5. /\ AmountUnder(charges, k) = charges[c].amount /\ RefundedUnder(charges, k) = charges[c].refunded
      /\ AmountUnder(charges', k) = charges'[c].amount
      /\ RefundedUnder(charges', k) = charges'[c].refunded
      /\ charges[c].amount \in Nat /\ charges[c].refunded \in Nat
  BY <1>3, <1>4, TablesOfKeys, UnderKey
<1>6. ASSUME NEW x \in ChargeKey, x # k
      PROVE  AmountUnder(charges', x) = AmountUnder(charges, x)
             /\ RefundedUnder(charges', x) = RefundedUnder(charges, x)
  <2>1. Under(charges', x) = Under(charges, x) /\ c \notin Under(charges, x)
        /\ Under(charges, x) \subseteq ChargeId
    BY <1>1, <1>6, TablesOfKeys DEF Under, Minted, k
  <2>2. \A y \in Under(charges, x) : charges'[y] = charges[y]
    BY <1>1, <2>1
  <2> QED BY <2>1, <2>2 DEF AmountUnder, RefundedUnder
<1>7. charges'[c].refunded <= charges'[c].amount
  BY <1>3 DEF RefundsCounted, Under
<1>8. Captured' = Captured
  <2>1. \A x \in ChargeKey : AmountUnder(charges', x) = AmountUnder(charges, x)
    BY <1>1, <1>5, <1>6
  <2> QED BY <2>1, MoneyByKey
<1>9. Returned' = [Returned EXCEPT ![k] = Returned'[k]]
  <2>1. \A x \in ChargeKey : x # k => Returned'[x] = Returned[x]
    BY <1>6, MoneyByKey
  <2> QED BY <1>4, <2>1, MoneyByKey
<1>10. Returned'[k] > Returned[k] /\ Returned'[k] <= Captured[k]
  <2>1. /\ Returned'[k] = charges[c].refunded + n /\ Returned[k] = charges[c].refunded
        /\ Captured[k] = charges[c].amount
    BY <1>1, <1>4, <1>5, MoneyByKey
  <2>2. charges[c].refunded + n <= charges[c].amount
    BY <1>1, <1>7
  <2> QED BY <1>2, <1>5, <2>1, <2>2
<1> QED BY <1>4, <1>8, <1>9, <1>10 DEF Promise!Return

(* Forgetting everything is forgetting all the money. *)
LEMMA EmptiedMoney ==
  ASSUME LInv, LInv', Emptied
  PROVE  Promise!Forget
<1>1. Minted(charges') = {}
  BY DEF Emptied, Minted
<1>2. \A k \in ChargeKey : Under(charges', k) = {}
  BY <1>1 DEF Under
<1>3. \A k \in ChargeKey : AmountUnder(charges', k) = 0 /\ RefundedUnder(charges', k) = 0
  BY <1>2, TablesOfKeys, UnderKey
<1> QED BY <1>3, MoneyByKey DEF Promise!Forget, Promise!Nothing, Emptied

(* The provider implements Bank: the empty ledger has no money, and every   *)
(* step captures under keys that had none, returns within what a key has    *)
(* captured, forgets everything (in memory only), or moves no money.        *)
THEOREM ProviderIsABank == LedgersSpec => BankImplemented
<1>1. ASSUME LedgersInit PROVE Promise!Init
  <2>1. LInv /\ Minted(charges) = {}
    BY <1>1, LedgersStart DEF LedgersInit, ProviderInit, Minted
  <2>2. \A k \in ChargeKey : Under(charges, k) = {}
    BY <2>1 DEF Under
  <2>3. \A k \in ChargeKey : AmountUnder(charges, k) = 0 /\ RefundedUnder(charges, k) = 0
    BY <2>1, <2>2, UnderKey DEF LInv, ProviderInv, ProviderTypeOK, KeysUnique
  <2> QED BY <2>3, MoneyByKey DEF Promise!Init, Promise!Nothing
<1>2. ASSUME LInv, [LedgersNext]_ledgers PROVE [Promise!Next]_(Promise!bank)
  <2>1. LInv' /\ MoneyStep /\ store' = store
    BY <1>2, LedgerStep
  <2>2. (store = "postgres")' = (store = "postgres")
    BY <2>1
  <2>3. CASE RowsKept \/ ChargeOpened \/ ChargesImported
    BY <1>2, <2>1, <2>2, <2>3, GrowingSteps, GrowingMoney DEF Promise!Next
  <2>4. CASE RefundMade
    BY <1>2, <2>1, <2>2, <2>4, RefundMoney DEF Promise!Next
  <2>5. CASE Emptied
    BY <1>2, <2>1, <2>2, <2>5, EmptiedMoney DEF Promise!Next
  <2> QED BY <2>1, <2>3, <2>4, <2>5 DEF MoneyStep
<1> QED BY <1>1, <1>2, LedgersInvariant, PTL DEF LedgersSpec, BankImplemented, Promise!Spec
=============================================================================
