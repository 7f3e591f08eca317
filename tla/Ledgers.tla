------------------------------ MODULE Ledgers ------------------------------
(***************************************************************************)
(* The provider on its own, over either of its ledgers, with callers that  *)
(* retry, race and give up, and with history imported into it.             *)
(*                                                                         *)
(* Which ledger is a matter of configuration.  The one in memory runs each *)
(* operation without an interleaving and forgets everything in a restart;  *)
(* the one in Postgres keeps what it committed, and an import there is two *)
(* statements outside any transaction.                                     *)
(***************************************************************************)
EXTENDS Paygate, Sums

CONSTANTS
  Stores,       \* ledgers the configuration may name
  ImportRows    \* charges the seed holds: their id, key, reference, amount
                \* and what was already refunded of them

VARIABLES
  store,        \* PAYGATE_STORE
  importing     \* rows an import has inserted and not yet claimed the keys of

ledgers == <<provider, store, importing>>

(* The seed's rows respect the constraints of paygate_charges, and a key is *)
(* imported as one charge.                                                  *)
ASSUME ImportAssumption ==
  /\ Stores \subseteq {"postgres", "memory"}
  /\ ImportRows \subseteq [id : SeedId, key : ChargeKey, reference : Reference,
                           amount : Amounts, refunded : Nat]
  /\ \A row \in ImportRows : row.refunded <= row.amount
  /\ \A row, other \in ImportRows : row.key = other.key \/ row.id = other.id => row = other

LedgersTypeOK ==
  /\ ProviderTypeOK
  /\ store \in Stores
  /\ importing \subseteq ImportRows

LedgersInit == ProviderInit /\ store \in Stores /\ importing = {}

-----------------------------------------------------------------------------
(* The ledger in memory.  Its operations never await, so each is one step. *)
(* A charge is opened, recovered and brought to life as Postgres does it.  *)
MemoryOpenCharge(r) == store = "memory" /\ OpenCharge(r)
MemoryRecover(r) == store = "memory" /\ RecoverCharge(r)
MemoryMaterialise(r) == store = "memory" /\ (MaterialiseCharge(r) \/ MaterialiseRefund(r))

(* A refund that is refused leaves nothing behind: its key can be tried again. *)
MemoryOpenRefund(r) ==
  LET verdict == RefundVerdict(http[r].body.of, http[r].body.amount) IN
  /\ store = "memory" /\ http[r].at = "posted" /\ http[r].op = "refund"
  /\ \/ ReplayRefund(r)
     \/ /\ refundClaim[http[r].key].row = "none"
        /\ IF verdict = 202 THEN TakeRefund(r)
           ELSE Answer(r, verdict, NONE) /\ UNCHANGED <<charges, refunds, refundClaim>>
  /\ UNCHANGED <<chargeClaim, wire>>

HandleInMemory(r) == \/ MemoryOpenCharge(r) \/ MemoryRecover(r)
                     \/ MemoryMaterialise(r) \/ MemoryOpenRefund(r)

(* The maps are fields of the process.  A caller hears of it as a failure. *)
MemoryRestart ==
  /\ store = "memory"
  /\ http' = [r \in Request |-> HungUp(r)]
  /\ charges' = [c \in ChargeId |-> Unused]
  /\ refunds' = [d \in RefundId |-> Unused]
  /\ chargeClaim' = [k \in ChargeKey |-> Unclaimed]
  /\ refundClaim' = [k \in RefundKey |-> NoRefund]
  /\ wire' = NoWebhooks
  /\ importing' = {}
  /\ UNCHANGED store

-----------------------------------------------------------------------------
(* POST /paygate/_ledger/import, sent by the seed and signed like a webhook: *)
(* the charges happened already, so nothing is announced.  It would take     *)
(* failed charges as well; the seed sends those that succeeded.              *)
Missing(batch) == {row \in batch : charges[row.id] = Unused}

AsCharge(row) == [key |-> row.key, reference |-> row.reference, amount |-> row.amount,
                  status |-> "succeeded", materialised |-> TRUE, refunded |-> row.refunded]

(* ON CONFLICT (id) DO NOTHING. *)
WithCharges(batch) ==
  [c \in ChargeId |-> IF \E row \in Missing(batch) : row.id = c
                        THEN AsCharge(CHOOSE row \in batch : row.id = c) ELSE charges[c]]

(* The fingerprint 'imported' is that of no request. *)
ClaimOf(row) == [charge |-> row.id, body |-> NoBody, outcome |-> "accepted"]

(* The claims table with those of the batch in it. *)
WithClaims(batch) ==
  [k \in ChargeKey |-> IF \E row \in batch : row.key = k
                         THEN ClaimOf(CHOOSE row \in batch : row.key = k) ELSE chargeClaim[k]]

(* The first statement.  A key that another charge has makes all of it fail. *)
ImportCharges(batch) ==
  /\ store = "postgres" /\ importing = {} /\ batch # {}
  /\ \A row \in Missing(batch) : ~KeyTaken(row.key)
  /\ charges' = WithCharges(batch)
  /\ importing' = batch
  /\ UNCHANGED <<http, refunds, chargeClaim, refundClaim, wire, store>>

(* The second statement: ON CONFLICT (scope, key) DO NOTHING. *)
ImportClaims ==
  /\ importing # {}
  /\ chargeClaim' = WithClaims({row \in importing : chargeClaim[row.key].charge = NONE})
  /\ importing' = {}
  /\ UNCHANGED <<http, charges, refunds, refundClaim, wire, store>>

(* In memory a row is written with its claim, over any claim of that key;    *)
(* the seed imports a key before anyone pays under it.                       *)
MemoryImport(batch) ==
  /\ store = "memory" /\ batch # {}
  /\ \A row \in Missing(batch) : ~KeyTaken(row.key)
  /\ charges' = WithCharges(batch)
  /\ chargeClaim' = WithClaims(Missing(batch))
  /\ UNCHANGED <<http, refunds, refundClaim, wire, store, importing>>

-----------------------------------------------------------------------------
(* Callers that post whatever the routes accept. *)
PostCharge(r, k, ref, amount) ==
  /\ http[r].at = "idle"
  /\ http' = [http EXCEPT ![r] = Posted("charge", k, [of |-> ref, amount |-> amount])]
  /\ UNCHANGED <<charges, refunds, chargeClaim, refundClaim, wire, store, importing>>

PostRefund(r, k, c, amount) ==
  /\ http[r].at = "idle"
  /\ http' = [http EXCEPT ![r] = Posted("refund", k, [of |-> c, amount |-> amount])]
  /\ UNCHANGED <<charges, refunds, chargeClaim, refundClaim, wire, store, importing>>

Collect(r) ==
  /\ http[r].at = "answered"
  /\ http' = [http EXCEPT ![r] = Idle]
  /\ UNCHANGED <<charges, refunds, chargeClaim, refundClaim, wire, store, importing>>

(* The app is given its ledger once, when it starts. *)
HandleWith(r) == /\ \/ store = "postgres" /\ Handle(r)
                    \/ HandleInMemory(r)
                 /\ UNCHANGED <<store, importing>>

(* Slip: it comes up with empty tables. *)
PostgresRestart_Emptied ==
  /\ store = "postgres"
  /\ http' = [r \in Request |-> HungUp(r)]
  /\ charges' = [c \in ChargeId |-> Unused]
  /\ refunds' = [d \in RefundId |-> Unused]
  /\ chargeClaim' = [k \in ChargeKey |-> Unclaimed]
  /\ refundClaim' = [k \in RefundKey |-> NoRefund]
  /\ wire' = NoWebhooks
  /\ importing' = {}
  /\ UNCHANGED store

(* A durable ledger is picked again with what it knew. *)
PostgresRestart == store = "postgres" /\ Restart /\ importing' = {} /\ UNCHANGED store

LedgersNext ==
  \/ \E r \in Request, k \in ChargeKey, ref \in Reference, amount \in Amounts :
       PostCharge(r, k, ref, amount)
  \/ \E r \in Request, k \in RefundKey, c \in ChargeId, amount \in Amounts :
       PostRefund(r, k, c, amount)
  \/ \E r \in Request : HandleWith(r) \/ Collect(r)
  \/ \E r \in Request : Drop(r) /\ UNCHANGED <<store, importing>>
  \/ \E c \in ChargeId, e \in Events : Send(c, e) /\ UNCHANGED <<store, importing>>
  \/ \E batch \in SUBSET ImportRows : ImportCharges(batch) \/ MemoryImport(batch)
  \/ ImportClaims
  \/ PostgresRestart \/ MemoryRestart

LedgersSpec == LedgersInit /\ [][LedgersNext]_ledgers

-----------------------------------------------------------------------------
(* What the refunds of a set add up to. *)
SumOf(ids) == SumOver([d \in ids |-> refunds[d].amount], ids)

RefundedBefore(c) == IF \E row \in ImportRows : row.id = c
                       THEN (CHOOSE row \in ImportRows : row.id = c).refunded ELSE 0

(* However often a key is retried, imported or both, and whatever was lost  *)
(* in between (the claims of an import too), it stands for one charge; a    *)
(* claim never names a charge that is not there, which openCharge would     *)
(* throw at, not in the middle of an import and not after a restart of      *)
(* either ledger; and if the ledger is durable every 202 that was ever      *)
(* answered names that charge: the caller cannot be charged twice.          *)
OneChargePerKey ==
  /\ \A c, d \in Minted(charges) : charges[c].key = charges[d].key => c = d
  /\ \A k \in ChargeKey :
       LET c == chargeClaim[k].charge IN c # NONE => charges[c] # Unused /\ charges[c].key = k
  /\ \A r \in Request :
       /\ store = "postgres"
       /\ http[r].at = "answered" /\ http[r].op = "charge" /\ http[r].code = 202
       => http[r].id = chargeClaim[http[r].key].charge

(* Concurrent refunds of one charge, under any keys, never add up to more   *)
(* than was captured, and refunded_minor is exactly what they add up to, on *)
(* top of what an import said; importing again takes none of it back.  And  *)
(* there is a refund only of a captured charge, although the charge may     *)
(* still be coming to life, or be declined, while the refund is opened.     *)
NeverOverRefunded ==
  \A c \in Minted(charges) :
    LET back == {d \in Minted(refunds) : refunds[d].charge = c} IN
    /\ charges[c].refunded <= charges[c].amount
    /\ charges[c].refunded = RefundedBefore(c) + SumOf(back)
    /\ back # {} => charges[c].status = "succeeded"

(* An outcome is announced when it comes into being and never again: a key  *)
(* retried after a 500, even twice at once, sends one set of webhooks, and  *)
(* an imported charge sends none.                                           *)
AnnouncedOnce ==
  [][\A c \in ChargeId : \A e \in {"charge.succeeded", "charge.failed"} :
       wire'[c][e] > wire[c][e] => ~charges[c].materialised]_ledgers

-----------------------------------------------------------------------------
(* Both ledgers keep the promise of Bank, money seen key by key. *)
CapturedUnder(k) == {c \in Minted(charges) : charges[c].key = k /\ charges[c].status = "succeeded"}

Captured == [k \in ChargeKey |->
  SumOver([c \in CapturedUnder(k) |-> charges[c].amount], CapturedUnder(k))]
Returned == [k \in ChargeKey |->
  SumOver([c \in CapturedUnder(k) |-> charges[c].refunded], CapturedUnder(k))]

Promise == INSTANCE Bank WITH
  Key <- ChargeKey, captured <- Captured, returned <- Returned, durable <- (store = "postgres")

(* Every step of the provider, import and restart included, is a step of    *)
(* Bank: a key captures once, returns are bounded by it, the Postgres       *)
(* ledger never forgets and the one in memory forgets all or nothing.       *)
BankImplemented == Promise!Spec
=============================================================================
