CONSTANTS
  Request = {q1, q2}
  seeded = seeded
  ref = ref
  ChargeKey = {seeded}
  RefundKey = {f1, f2}
  Reference = {ref}
  ChargeId <- MCChargeId
  RefundId <- MCRefundId
  SeedId <- MCSeedId
  Amounts = {1, 2}
  DECLINE_AMOUNT = 1
  MAX_DELIVERIES = 2
  Stores = {"postgres", "memory"}
  ImportRows <- MCImportRows
SPECIFICATION LedgersSpec
INVARIANTS LedgersTypeOK OneChargePerKey NeverOverRefunded
PROPERTIES AnnouncedOnce BankImplemented
SYMMETRY MCSymmetry
